---- MODULE Spec2Model ----
(***************************************************************************)
(* Request handling of the tax-info server (src/unnamed/part_003): submit  *)
(* (POST /api/tax-info), fetch (GET /api/tax-info), the persistence store  *)
(* (readTaxInfo / writeTaxInfo) and Spreadsheet Sync                       *)
(* (appendTaxInfoToSheet) with its bounded retries.                        *)
(* The lookup (GET /api/tax-lookup/:taxCode, lookupCompanyByTaxCode,       *)
(* tryVietQRApi, MOCK_TAX_DATA) is part of the same machine; FunctionsSpec  *)
(* calls formatAddress and the phone normaliser on their own.              *)
(*                                                                         *)
(* Strings of the program are sequences of one-character strings, so that  *)
(* the regular expressions and the String.replace calls of the source are  *)
(* computed character by character.                                        *)
(*                                                                         *)
(* The POST handler is written `(req, res) => { ... await ... }`; it is    *)
(* modelled with the semantics of an async handler, which is what its      *)
(* `await appendTaxInfoToSheet(taxInfo)` (line 749) needs to run at all.   *)
(***************************************************************************)
EXTENDS Integers, Sequences, FiniteSets, TLC

VARIABLES
    VERCEL,          \* process.env.VERCEL is set (read-only deployment target)
    urlConfigured,   \* GOOGLE_APPS_SCRIPT_URL is a non-empty string
    customApiUrl,    \* process.env.TAX_LOOKUP_API_URL, as words (<<>>: not set)
    file,            \* content of TAX_INFO_FILE: NoFile, Corrupt or a record
    now,             \* logical clock read by new Date()
    pc,              \* position of the request being handled
    request,         \* the request being handled (or NoRequest)
    taxInfo,         \* submit: the record built at lines 731-740
    retryCount,      \* appendTaxInfoToSheet: parameter retryCount
    status,          \* appendTaxInfoToSheet: response.status once headers arrived
    webhookReq,      \* body of the webhook request in flight (or NoPayload)
    attempts,        \* how each webhook request of the current sync ended
    appended,        \* rows the webhook appended for the current submit
    timerMs,         \* delay of the pending backoff timer (0: none)
    sent,            \* webhook requests issued while handling the request
    saved,           \* submit: const saved = writeTaxInfo(taxInfo)
    syncResult,      \* what appendTaxInfoToSheet returned to the handler
    response,        \* the HTTP response sent for the request (or NoResponse)
    sends,           \* res.json calls made for the request
    guardArmed,      \* lookup: the 15 s timer of Promise.race is pending
    lpc,             \* lookupCompanyByTaxCode: position of the running call
    adapterCalls,    \* lookup sources queried while handling the request
    lookupResult,    \* what lookupCompanyByTaxCode returned (or Null)
    vietQrResult,    \* lookupCompanyByTaxCode: what tryVietQRApi returned (line 473)
    adapterEnds,     \* history: how each queried source ended
    lastAccepted,    \* history: record built by the latest validated submit
    lastWriteThrew,  \* history: writeFileSync threw for lastAccepted
    rawAddress,      \* formatAddress: its argument
    rawPhone,        \* the phone normaliser: taxData.phone / formData.phone
    returned,        \* what the function called on its own returned
    sheet,           \* webhook: the rows of the first sheet of the spreadsheet
    doPosts,         \* webhook: the executions of doPost, by number
    handlers         \* submit handlers running at once, by number

vars == <<VERCEL, urlConfigured, customApiUrl, file, now, pc, request, taxInfo, retryCount,
          status, webhookReq, attempts, appended, timerMs, sent, saved, syncResult,
          response, sends, guardArmed, lpc, adapterCalls, lookupResult, vietQrResult, adapterEnds,
          lastAccepted, lastWriteThrew, rawAddress, rawPhone, returned, sheet, doPosts,
          handlers>>

-----------------------------------------------------------------------------
(* Bounds and program constants *)

\* number of records the clock lets submit build in one behaviour
MaxClock == 2

\* number of doPost executions in one behaviour of the webhook
MaxCalls == 2

\* number of submit requests handled at once
MaxRequests == 2

\* const MAX_RETRIES = 2
MAX_RETRIES == 2

\* setTimeout(resolve, 1000 * (retryCount + 1))
BACKOFF_UNIT_MS == 1000

-----------------------------------------------------------------------------
(* Characters and strings *)

Digit == {"0", "1", "2", "3", "4", "5", "6", "7", "8", "9"}

Lower == {"a", "b", "c", "d", "e", "f", "g", "h", "i", "j", "k", "l", "m",
          "n", "o", "p", "q", "r", "s", "t", "u", "v", "w", "x", "y", "z"}

Upper == {"A", "B", "C", "D", "E", "F", "G", "H", "I", "J", "K", "L", "M",
          "N", "O", "P", "Q", "R", "S", "T", "U", "V", "W", "X", "Y", "Z"}

\* the characters \s matches, among those the inputs use
Whitespace == {" ", "\t"}

\* String.prototype.trim
RECURSIVE TrimLeft(_)
TrimLeft(s) ==
    IF s # <<>> /\ Head(s) \in Whitespace THEN TrimLeft(Tail(s)) ELSE s

RECURSIVE TrimRight(_)
TrimRight(s) ==
    IF s # <<>> /\ s[Len(s)] \in Whitespace
       THEN TrimRight(SubSeq(s, 1, Len(s) - 1))
       ELSE s

Trim(s) == TrimRight(TrimLeft(s))

\* a regular expression ^[class]{lo,hi}$
MatchesClassCount(s, class, lo, hi) ==
    /\ Len(s) >= lo
    /\ Len(s) <= hi
    /\ \A i \in 1..Len(s) : s[i] \in class

\* the taxCode pattern with its lower count off by one
MutTaxCodeRegexNine(s) == MatchesClassCount(s, Digit, 9, 13)

\* /^[0-9]{10,13}$/
TaxCodeRegex(s) == MatchesClassCount(s, Digit, 10, 13)

\* /^[0-9]{10,11}$/
PhoneRegex(s) == MatchesClassCount(s, Digit, 10, 11)

\* /^[A-Z0-9._%+-]+@[A-Z0-9.-]+\.[A-Z]{2,}$/i : some split of the string
\* into local part, "@", domain, ".", top-level name matches
EmailLocalChars == Upper \cup Lower \cup Digit \cup {".", "_", "%", "+", "-"}
EmailDomainChars == Upper \cup Lower \cup Digit \cup {".", "-"}
EmailTldChars == Upper \cup Lower

EmailRegex(s) ==
    \E at \in 1..Len(s) : \E dot \in 1..Len(s) :
        /\ at > 1
        /\ dot > at + 1
        /\ Len(s) - dot >= 2
        /\ s[at] = "@"
        /\ s[dot] = "."
        /\ \A i \in 1..(at - 1) : s[i] \in EmailLocalChars
        /\ \A i \in (at + 1)..(dot - 1) : s[i] \in EmailDomainChars
        /\ \A i \in (dot + 1)..Len(s) : s[i] \in EmailTldChars

\* phone.replace(/\s+/g, '')
RemoveSpaces(s) == SelectSeq(s, LAMBDA c : c \notin Whitespace)

\* .replace(/-/g, '')
RemoveDashes(s) == SelectSeq(s, LAMBDA c : c # "-")

\* .replace(/\+84/g, '0') : every occurrence, scanning left to right
RECURSIVE ReplacePlus84(_)
ReplacePlus84(s) ==
    IF s = <<>> THEN <<>>
    ELSE IF Len(s) >= 3 /\ s[1] = "+" /\ s[2] = "8" /\ s[3] = "4"
         THEN <<"0">> \o ReplacePlus84(SubSeq(s, 4, Len(s)))
         ELSE <<Head(s)>> \o ReplacePlus84(Tail(s))

\* .replace(/^84/, '0')
ReplaceLeading84(s) ==
    IF Len(s) >= 2 /\ s[1] = "8" /\ s[2] = "4"
       THEN <<"0">> \o SubSeq(s, 3, Len(s))
       ELSE s

\* the rewrite of a leading 84 left out
MutNormalizePhoneKeepsLeading84(s) ==
    ReplacePlus84(RemoveDashes(RemoveSpaces(s)))

\* the four replace calls of the submit handler, in their order
NormalizePhone(s) ==
    ReplaceLeading84(ReplacePlus84(RemoveDashes(RemoveSpaces(s))))

-----------------------------------------------------------------------------
(* Address formatter *)

\* the upper-case form of the letters the country patterns use
UpperOf(c) ==
    CASE c = "v" -> "V"
      [] c = "i" -> "I"
      [] c = "ệ" -> "Ệ"
      [] c = "e" -> "E"
      [] c = "t" -> "T"
      [] c = "n" -> "N"
      [] c = "a" -> "A"
      [] c = "m" -> "M"

\* s ends with the lower-case word pat, compared under the i flag
EndsWithWord(s, pat) ==
    /\ Len(s) >= Len(pat)
    /\ \A i \in 1..Len(pat) :
          LET c == s[Len(s) - Len(pat) + i]
          IN  c = pat[i] \/ c = UpperOf(pat[i])

DropLast(s, n) == SubSeq(s, 1, Len(s) - n)

\* s matches (,\s*|\s+)$ ... i.e. what may stand before the country name
EndsWithSeparator(s) ==
    \/ s # <<>> /\ s[Len(s)] \in Whitespace
    \/ TrimRight(s) # <<>> /\ TrimRight(s)[Len(TrimRight(s))] = ","

\* /,\s*Việt\s*Nam\s*$/i or /\s+Việt\s*Nam\s*$/i
EndsWithVietNam(s) ==
    LET a == TrimRight(s) IN
    /\ EndsWithWord(a, <<"n", "a", "m">>)
    /\ LET b == TrimRight(DropLast(a, 3)) IN
       /\ EndsWithWord(b, <<"v", "i", "ệ", "t">>)
       /\ EndsWithSeparator(DropLast(b, 4))

\* /,\s*Vietnam\s*$/i or /\s+Vietnam\s*$/i
EndsWithVietnam(s) ==
    LET a == TrimRight(s) IN
    /\ EndsWithWord(a, <<"v", "i", "e", "t", "n", "a", "m">>)
    /\ EndsWithSeparator(DropLast(a, 7))

\* vietnamPatterns.some(pattern => pattern.test(trimmedAddress))
hasVietnam(s) == EndsWithVietNam(s) \/ EndsWithVietnam(s)

CountrySuffix == <<",", " ", "V", "i", "ệ", "t", " ", "N", "a", "m">>

\* the suffix added to the address as it came, untrimmed
MutFormatAddressUntrimmed(address) ==
    IF address = <<>> \/ Trim(address) = <<>> THEN <<>>
    ELSE IF hasVietnam(Trim(address)) THEN Trim(address)
    ELSE address \o CountrySuffix

formatAddress(address) ==
    IF address = <<>> \/ Trim(address) = <<>> THEN <<>>
    ELSE IF hasVietnam(Trim(address)) THEN Trim(address)
    ELSE Trim(address) \o CountrySuffix

-----------------------------------------------------------------------------
(* Values *)

\* JavaScript null / undefined where a record is expected
Null == [null |-> TRUE]

NoRequest == [kind |-> "none", taxCode |-> <<>>, phone |-> <<>>]
NoResponse == [code |-> 0]
NoPayload == [none |-> TRUE]

\* states of TAX_INFO_FILE
NoFile == [state |-> "absent"]
Corrupt == [state |-> "corrupt"]
JsonFile(rec) == [state |-> "json", data |-> rec]

\* x || '' on a string field (a missing field is the empty string here)
OrEmpty(x) == x

\* messages are sequences of words; String.prototype.includes on them
Includes(msg, words) ==
    \E i \in 0..(Len(msg) - Len(words)) :
        \A j \in 1..Len(words) : msg[i + j] = words[j]

StatusWord(st) ==
    CASE st = 200 -> "200"
      [] st = 400 -> "400"
      [] st = 401 -> "401"
      [] st = 403 -> "403"
      [] st = 404 -> "404"
      [] st = 500 -> "500"
      [] st = 503 -> "503"

-----------------------------------------------------------------------------
(* Persistence store *)

\* readTaxInfo: null on Vercel, null when the file is missing, the parsed
\* content otherwise; a JSON.parse failure is caught and gives null
readTaxInfo ==
    IF VERCEL THEN Null
    ELSE IF file.state = "json" THEN file.data
    ELSE Null

\* a write that keeps an existing record
MutFilesAfterWriteKeepsOld(rec, throws) ==
    IF VERCEL THEN {file}
    ELSE IF throws THEN {file, Corrupt}
    ELSE IF file.state = "json" THEN {file}
    ELSE {JsonFile(rec)}

\* a write that does not look at VERCEL
MutFilesAfterWriteOnVercel(rec, throws) ==
    IF throws THEN {file, Corrupt} ELSE {JsonFile(rec)}

\* the write left out
MutFilesAfterWriteSkipped(rec, throws) == {file}

\* writeTaxInfo(taxInfo) with writeFileSync throwing or not: the file after
\* the call. A write that throws leaves the old content or a truncated file.
FilesAfterWrite(rec, throws) ==
    IF VERCEL THEN {file}
    ELSE IF throws THEN {file, Corrupt}
    ELSE {JsonFile(rec)}

\* writeTaxInfo's return value
writeTaxInfoReturns(throws) ==
    IF VERCEL THEN TRUE
    ELSE IF throws THEN TRUE
    ELSE TRUE

-----------------------------------------------------------------------------
(* Spreadsheet Sync: appendTaxInfoToSheet *)

Outcome(ok, msg) == [success |-> ok, message |-> msg]

\* what one attempt decides: return an outcome, wait and call itself again,
\* or let an exception escape to the caller
Return(out) == [act |-> "return", result |-> out, delay |-> 0]
Retry(ms) == [act |-> "retry", result |-> Null, delay |-> ms]
Throw == [act |-> "throw", result |-> Null, delay |-> 0]

\* the same wait before every retry
MutBackoffDelayFlat(rc) == BACKOFF_UNIT_MS

\* 1000 * (retryCount + 1)
BackoffDelay(rc) == BACKOFF_UNIT_MS * (rc + 1)

\* line 131-136
NotConfiguredOutcome == Outcome(FALSE, <<"Google", "Sheets", "not", "configured">>)

\* the JSON body of the webhook request, lines 161-168
Payload(rec) ==
    [invoiceNumber |-> OrEmpty(rec.invoiceNumber),
     taxCode       |-> OrEmpty(rec.taxCode),
     companyName   |-> OrEmpty(rec.companyName),
     address       |-> OrEmpty(rec.address),
     email         |-> OrEmpty(rec.email),
     phone         |-> OrEmpty(rec.phone)]

\* OnParsedBody treating a false success flag as final
MutOnParsedBodyNoRetry(body, rc) ==
    IF body.success
       THEN Return(Outcome(TRUE, <<"Data", "saved", "to", "Google", "Sheets">>))
       ELSE Return(Outcome(FALSE,
                IF body.message # <<>> THEN body.message
                ELSE <<"Apps", "Script", "returned", "error">>))

\* lines 182-195: the body parsed as JSON
OnParsedBody(body, rc) ==
    IF body.success
       THEN Return(Outcome(TRUE, <<"Data", "saved", "to", "Google", "Sheets">>))
       ELSE IF rc < MAX_RETRIES
               THEN Retry(BackoffDelay(rc))
               ELSE Return(Outcome(FALSE,
                        IF body.message # <<>> THEN body.message
                        ELSE <<"Apps", "Script", "returned", "error">>))

\* OnParseError giving up at once
MutOnParseErrorNoRetry(rc) ==
    Return(Outcome(FALSE, <<"Failed", "to", "parse", "response">>))

\* lines 196-206: JSON.parse threw
OnParseError(rc) ==
    IF rc < MAX_RETRIES
       THEN Retry(BackoffDelay(rc))
       ELSE Return(Outcome(FALSE, <<"Failed", "to", "parse", "response">>))

\* lines 220-231
HttpErrorMessage(st) ==
    IF st = 401 THEN <<"Apps", "Script", "authorization", "error">>
    ELSE IF st = 403 THEN <<"Permission", "denied">>
    ELSE IF st = 404 THEN <<"Apps", "Script", "URL", "not", "found">>
    ELSE <<"HTTP", StatusWord(st)>>

\* OnHttpError with the retry bound off by one
MutOnHttpErrorOneMore(st, rc) ==
    IF st >= 500 /\ rc <= MAX_RETRIES
       THEN Retry(BackoffDelay(rc))
       ELSE Return(Outcome(FALSE, HttpErrorMessage(st)))

\* lines 207-234: response.ok is false
OnHttpError(st, rc) ==
    IF st >= 500 /\ rc < MAX_RETRIES
       THEN Retry(BackoffDelay(rc))
       ELSE Return(Outcome(FALSE, HttpErrorMessage(st)))

\* response.ok
ResponseOk(st) == st >= 200 /\ st <= 299

\* lines 175-234: the response text has been read
OnResponse(st, body, rc) ==
    IF ResponseOk(st)
       THEN IF body.json THEN OnParsedBody(body, rc) ELSE OnParseError(rc)
       ELSE OnHttpError(st, rc)

\* OnOuterCatch rethrowing what it does not recognise
MutOnOuterCatchRethrows(err, rc) ==
    IF Includes(err.message, <<"fetch", "failed">>)
          \/ Includes(err.message, <<"ECONNREFUSED">>)
       THEN IF rc < MAX_RETRIES
               THEN Retry(BackoffDelay(rc))
               ELSE Return(Outcome(FALSE, <<"Network", "error">>))
       ELSE Throw

\* lines 250-263: the outer catch
OnOuterCatch(err, rc) ==
    IF Includes(err.message, <<"fetch", "failed">>)
          \/ Includes(err.message, <<"ECONNREFUSED">>)
       THEN IF rc < MAX_RETRIES
               THEN Retry(BackoffDelay(rc))
               ELSE Return(Outcome(FALSE, <<"Network", "error">>))
       ELSE Return(Outcome(FALSE,
                IF err.message # <<>> THEN err.message
                ELSE <<"Unknown", "error", "occurred">>))

\* lines 235-249: the inner catch around fetch and response.text()
OnFetchError(err, rc) ==
    IF err.name = "AbortError"
       THEN IF rc < MAX_RETRIES
               THEN Retry(BackoffDelay(rc))
               ELSE Return(Outcome(FALSE, <<"Request", "timeout">>))
       ELSE OnOuterCatch(err, rc)

\* doPost seen from the caller: the rows one webhook request can have added,
\* by how the attempt ended. A success answer is sent after appendRow; the
\* success:false answer comes from the catch block, before any row is
\* written; a request that timed out, lost its connection or got an
\* unreadable or 5xx answer may or may not have reached appendRow.
RowsAppendedBy(cls) ==
    CASE cls = "ok" -> {1}
      [] cls \in {"timeout", "netfail", "badjson", "5xx"} -> {0, 1}
      [] OTHER -> {0}

\* how an attempt ended, for the history `attempts`
ClassOfResponse(st, body) ==
    IF ResponseOk(st)
       THEN IF ~body.json THEN "badjson"
            ELSE IF body.success THEN "ok" ELSE "appfail"
       ELSE IF st >= 500 THEN "5xx" ELSE "4xx"

ClassOfError(err) ==
    IF err.name = "AbortError" THEN "timeout"
    ELSE IF Includes(err.message, <<"fetch", "failed">>)
              \/ Includes(err.message, <<"ECONNREFUSED">>)
         THEN "netfail"
         ELSE "error"

-----------------------------------------------------------------------------
(* Request handlers *)

Resp(code, ok, msg, data, sync) ==
    [code |-> code, success |-> ok, message |-> msg, data |-> data,
     googleSheetsSync |-> sync]

\* !x for a string field: missing or empty
Falsy(x) == x = <<>>

\* the phone checked as it was typed
MutSubmitRejectionRawPhone(body) ==
    IF Falsy(body.taxCode)
       THEN <<"Ma", "so", "thue", "la", "bat", "buoc">>
    ELSE IF ~TaxCodeRegex(body.taxCode)
       THEN <<"Ma", "so", "thue", "phai", "co", "10-13", "chu", "so">>
    ELSE IF Falsy(body.email) \/ Trim(body.email) = <<>>
       THEN <<"Email", "la", "bat", "buoc">>
    ELSE IF ~EmailRegex(body.email)
       THEN <<"Email", "khong", "hop", "le">>
    ELSE IF Falsy(body.phone) \/ Trim(body.phone) = <<>>
       THEN <<"So", "dien", "thoai", "la", "bat", "buoc">>
    ELSE IF ~PhoneRegex(body.phone)
       THEN <<"So", "dien", "thoai", "phai", "co", "10-11", "chu", "so">>
    ELSE <<>>

\* POST /api/tax-info, lines 675-728: the message of the 400 response, or
\* the empty message when the body passes every check
SubmitRejection(body) ==
    IF Falsy(body.taxCode)
       THEN <<"Ma", "so", "thue", "la", "bat", "buoc">>
    ELSE IF ~TaxCodeRegex(body.taxCode)
       THEN <<"Ma", "so", "thue", "phai", "co", "10-13", "chu", "so">>
    ELSE IF Falsy(body.email) \/ Trim(body.email) = <<>>
       THEN <<"Email", "la", "bat", "buoc">>
    ELSE IF ~EmailRegex(body.email)
       THEN <<"Email", "khong", "hop", "le">>
    ELSE IF Falsy(body.phone) \/ Trim(body.phone) = <<>>
       THEN <<"So", "dien", "thoai", "la", "bat", "buoc">>
    ELSE IF ~PhoneRegex(NormalizePhone(body.phone))
       THEN <<"So", "dien", "thoai", "phai", "co", "10-11", "chu", "so">>
    ELSE <<>>

\* BuildTaxInfo keeping the phone as it was typed
MutBuildTaxInfoRawPhone(body, t) ==
    [taxCode       |-> body.taxCode,
     companyName   |-> OrEmpty(body.companyName),
     address       |-> OrEmpty(body.address),
     email         |-> OrEmpty(body.email),
     phone         |-> body.phone,
     invoiceNumber |-> OrEmpty(body.invoiceNumber),
     createdAt     |-> IF body.createdAt # 0 THEN body.createdAt ELSE t,
     updatedAt     |-> t]

\* lines 731-740, with new Date() reading t
BuildTaxInfo(body, t) ==
    [taxCode       |-> body.taxCode,
     companyName   |-> OrEmpty(body.companyName),
     address       |-> OrEmpty(body.address),
     email         |-> OrEmpty(body.email),
     phone         |-> NormalizePhone(body.phone),
     invoiceNumber |-> OrEmpty(body.invoiceNumber),
     createdAt     |-> IF body.createdAt # 0 THEN body.createdAt ELSE t,
     updatedAt     |-> t]

NotAttempted == Outcome(FALSE, <<"Not", "attempted">>)

\* what the await at line 749 gives the handler
Returned(out) == [threw |-> FALSE, result |-> out]
Thrown == [threw |-> TRUE, result |-> Null]
NoSync == [threw |-> FALSE, result |-> Null]

\* lines 747-760: googleSheetsResult after the try/catch around the await
GoogleSheetsResult(sync) == IF sync.threw THEN Null ELSE sync.result

\* lines 764-766
ResponseMessage(gs) ==
    IF gs # Null /\ gs.success
       THEN <<"saved", "and", "written", "to", "Google", "Sheet">>
       ELSE <<"saved">> \o (IF gs # Null THEN <<"(Google", "Sheet:">> \o gs.message
                            ELSE <<>>)

\* the response carrying what the slot holds when the handler resumes
MutSubmitResponseFromSlot(rec, wasSaved, sync) ==
    IF wasSaved
       THEN Resp(200, TRUE, ResponseMessage(GoogleSheetsResult(sync)), readTaxInfo,
                 IF GoogleSheetsResult(sync) # Null
                    THEN GoogleSheetsResult(sync)
                    ELSE NotAttempted)
       ELSE Resp(500, FALSE, <<"Failed", "to", "save", "tax", "information">>,
                 Null, Null)

\* SubmitResponse failing the request when the sync did not succeed
MutSubmitResponseNeedsSync(rec, wasSaved, sync) ==
    IF wasSaved /\ GoogleSheetsResult(sync) # Null /\ GoogleSheetsResult(sync).success
       THEN Resp(200, TRUE, ResponseMessage(GoogleSheetsResult(sync)), rec,
                 GoogleSheetsResult(sync))
       ELSE Resp(500, FALSE, <<"Failed", "to", "save", "tax", "information">>,
                 Null, Null)

\* lines 762-783: the response of a submit that passed validation
SubmitResponse(rec, wasSaved, sync) ==
    IF wasSaved
       THEN Resp(200, TRUE, ResponseMessage(GoogleSheetsResult(sync)), rec,
                 IF GoogleSheetsResult(sync) # Null
                    THEN GoogleSheetsResult(sync)
                    ELSE NotAttempted)
       ELSE Resp(500, FALSE, <<"Failed", "to", "save", "tax", "information">>,
                 Null, Null)

\* GET /api/tax-info, lines 555-569
FetchResponse == Resp(200, TRUE, <<>>, readTaxInfo, Null)

-----------------------------------------------------------------------------
(* Lookup: sources and orchestrator *)

LookupOk(data) == [success |-> TRUE, data |-> data, message |-> <<>>]
LookupFail(msg) == [success |-> FALSE, data |-> Null, message |-> msg]

\* x || y on strings
OrElse(x, y) == IF x # <<>> THEN x ELSE y

MockTaxCode == <<"3", "9", "0", "1", "2", "1", "2", "6", "5", "4">>

\* MOCK_TAX_DATA (TitleEnAscii is null)
MOCK_TAX_DATA ==
    [MaSoThue |-> MockTaxCode,
     Title |-> <<"Công Ty TNHH Mtv Ngô Trọng Phát">>,
     TitleEn |-> <<"Ngo Trong Phat Co., Ltd">>,
     TitleEnAscii |-> <<>>,
     DiaChiCongTy |-> <<"T", "ổ", " ", "1", "7", ",", " ", "ấ", "p", " ", "T", "â",
         "n", " ", "T", "i", "ế", "n", ",", " ", "X", "ã", " ", "T",
         "â", "n", " ", "L", "ậ", "p", ",", " ", "H", "u", "y", "ệ",
         "n", " ", "T", "â", "n", " ", "B", "i", "ê", "n", ",", " ",
         "T", "ỉ", "n", "h", " ", "T", "â", "y", " ", "N", "i", "n",
         "h">>]

\* the placeholder endpoint taken for a real one
MutCustomApiUsedPlaceholder == customApiUrl # <<>>

\* line 419: apiBaseUrl && !apiBaseUrl.includes('example.com')
CustomApiUsed ==
    customApiUrl # <<>> /\ ~Includes(customApiUrl, <<"example.com">>)

\* lines 451-464: the custom API's JSON, or Null when it lacks the fields
CustomResult(data, taxCode) ==
    IF data.MaSoThue # <<>> /\ data.Title # <<>>
       THEN LookupOk([taxCode       |-> OrElse(data.MaSoThue, taxCode),
                      companyName   |-> OrEmpty(data.Title),
                      companyNameEn |-> OrEmpty(data.TitleEn),
                      shortName     |-> OrEmpty(data.TitleEnAscii),
                      address       |-> formatAddress(OrEmpty(data.DiaChiCongTy))])
       ELSE Null

\* tryVietQRApi, lines 363-392: the parsed body classified
VietQRResult(body, taxCode) ==
    IF body.code = "00" /\ body.data # Null
       THEN LookupOk([taxCode       |-> OrElse(body.data.id, taxCode),
                      companyName   |-> OrEmpty(body.data.name),
                      companyNameEn |-> OrEmpty(body.data.internationalName),
                      shortName     |-> OrEmpty(body.data.shortName),
                      address       |-> formatAddress(OrEmpty(body.data.address))])
    ELSE IF body.code # "" /\ body.code # "00"
       THEN LookupFail(<<"VietQR", "API:">>
                       \o OrElse(body.desc, <<"Unknown", "error">>))
    ELSE Null

\* tryVietQRApi, lines 343-351: a status that ends the attempt with null
VietQRStatusGivesUp(st) == st = 429 \/ ~ResponseOk(st)

\* the table's address handed on as it is
MutMockResultRawAddress(taxCode) ==
    IF taxCode = MockTaxCode
       THEN LookupOk([taxCode       |-> OrElse(MOCK_TAX_DATA.MaSoThue, taxCode),
                      companyName   |-> OrEmpty(MOCK_TAX_DATA.Title),
                      companyNameEn |-> OrEmpty(MOCK_TAX_DATA.TitleEn),
                      shortName     |-> OrEmpty(MOCK_TAX_DATA.TitleEnAscii),
                      address       |-> OrEmpty(MOCK_TAX_DATA.DiaChiCongTy)])
       ELSE Null

\* lines 485-500
MockResult(taxCode) ==
    IF taxCode = MockTaxCode
       THEN LookupOk([taxCode       |-> OrElse(MOCK_TAX_DATA.MaSoThue, taxCode),
                      companyName   |-> OrEmpty(MOCK_TAX_DATA.Title),
                      companyNameEn |-> OrEmpty(MOCK_TAX_DATA.TitleEn),
                      shortName     |-> OrEmpty(MOCK_TAX_DATA.TitleEnAscii),
                      address       |-> formatAddress(OrEmpty(MOCK_TAX_DATA.DiaChiCongTy))])
       ELSE Null

\* lines 503-506
NotFoundResult ==
    LookupFail(<<"Khong", "tim", "thay", "thong", "tin", "cong", "ty">>)

\* an error payload of the public API ending the chain with its description
MutVietQREndsChainOnError(vq) == vq # Null

\* lines 473-482: the public API's answer ends the chain
VietQREndsChain(vq) == vq # Null /\ vq.success

\* the last accepted submit answering for its tax code
MutFallbackResultRemembers(taxCode) ==
    IF lastAccepted # Null /\ lastAccepted.taxCode = taxCode
       THEN LookupOk(lastAccepted)
       ELSE IF MockResult(taxCode) # Null THEN MockResult(taxCode) ELSE NotFoundResult

\* lines 484-506: after the public API did not end the chain
FallbackResult(taxCode) ==
    IF MockResult(taxCode) # Null THEN MockResult(taxCode) ELSE NotFoundResult

\* GET /api/tax-lookup/:taxCode, line 582
LookupFormatOk(taxCode) == taxCode # <<>> /\ TaxCodeRegex(taxCode)

\* lines 584-587
LookupFormatResponse ==
    Resp(200, FALSE, <<"Ma", "so", "thue", "khong", "hop", "le.", "10-13">>,
         Null, Null)

\* lines 599-605: the 15 s guard of Promise.race rejected first
LookupGuardResponse ==
    Resp(200, FALSE, <<"Lookup", "timeout", "after", "15", "seconds">>, Null, Null)

\* a lookup that failed answered as a missing resource
MutLookupResponse404(result) ==
    IF result # Null /\ result.success
       THEN Resp(200, TRUE, <<>>, result.data, Null)
       ELSE Resp(404, FALSE, result.message, Null, Null)

\* lines 607-621
LookupResponse(result) ==
    IF result # Null /\ result.success
       THEN Resp(200, TRUE, <<>>, result.data, Null)
       ELSE Resp(200, FALSE,
                 IF result # Null /\ result.message # <<>> THEN result.message
                 ELSE <<"Khong", "tim", "thay", "thong", "tin">>,
                 Null, Null)

\* parseTaxApiResponse, lines 537-553
parseTaxApiResponse(data) ==
    IF data.MaSoThue # <<>> /\ data.Title # <<>>
       THEN LookupOk([taxCode       |-> data.MaSoThue,
                      companyName   |-> OrEmpty(data.Title),
                      companyNameEn |-> OrEmpty(data.TitleEn),
                      shortName     |-> OrEmpty(data.TitleEnAscii),
                      address       |-> formatAddress(OrEmpty(data.DiaChiCongTy))])
       ELSE Null

\* POST /api/tax-lookup/parse, lines 643-669
ParseResponse(body) ==
    IF parseTaxApiResponse(body) # Null /\ parseTaxApiResponse(body).success
       THEN Resp(200, TRUE, <<>>, parseTaxApiResponse(body).data, Null)
       ELSE Resp(400, FALSE, <<"Khong", "the", "parse", "response">>, Null, Null)

\* GET /api/health, lines 72-78
HealthResponse ==
    [code |-> 200, success |-> TRUE,
     message |-> <<"Tax", "Info", "API", "is", "running">>,
     data |-> Null, googleSheetsSync |-> Null, timestamp |-> now]

-----------------------------------------------------------------------------
(* Inputs *)

TaxCode10 == <<"0", "3", "1", "6", "7", "9", "4", "4", "7", "9">>
TaxCode13 == TaxCode10 \o <<"0", "0", "1">>
TaxCode9 == SubSeq(TaxCode10, 1, 9)
TaxCode14 == TaxCode13 \o <<"7">>
TaxCodeAlpha == <<"0", "3", "1", "6", "7", "9", "4", "4", "7", "a">>
TaxCodeSpaced == <<" ">> \o TaxCode10

TaxCodeInputs ==
    {<<>>, TaxCode9, TaxCode10, TaxCode13, TaxCode14, TaxCodeAlpha, TaxCodeSpaced}

EmailGood == <<"a", "@", "b", ".", "c", "o">>
EmailShortTld == <<"a", "@", "b", ".", "c">>
EmailNoDot == <<"a", "@", "b", "c", "o">>
EmailBlank == <<" ", " ">>
EmailPadded == <<" ">> \o EmailGood

EmailInputs == {<<>>, EmailBlank, EmailGood, EmailShortTld, EmailNoDot, EmailPadded}

Phone10 == <<"0", "1", "2", "3", "4", "5", "6", "7", "8", "9">>
Phone11 == Phone10 \o <<"0">>
Phone12 == Phone11 \o <<"1">>
Phone9 == SubSeq(Phone10, 1, 9)
\* "+84 123-456-789"
PhonePlus84 == <<"+", "8", "4", " ", "1", "2", "3", "-", "4", "5", "6", "-",
                 "7", "8", "9">>
\* "84123456789"
Phone84 == <<"8", "4", "1", "2", "3", "4", "5", "6", "7", "8", "9">>
PhoneAlpha == <<"0", "1", "2", "3", "4", "5", "6", "7", "8", "x">>
PhoneBlank == <<" ">>

PhoneInputs ==
    {<<>>, PhoneBlank, Phone9, Phone10, Phone11, Phone12, PhonePlus84, Phone84,
     PhoneAlpha}

\* the optional fields of a submit body: all missing, or all given
\* (createdAt 0: missing)
OptionalInputs ==
    {[companyName |-> <<>>, address |-> <<>>, invoiceNumber |-> <<>>,
      createdAt |-> 0],
     [companyName |-> <<"C", "o">>, address |-> <<"H", "N">>,
      invoiceNumber |-> <<"7">>, createdAt |-> 0 - 1]}

\* a body that passes every check
BaseBody ==
    [taxCode |-> TaxCode10, email |-> EmailGood, phone |-> Phone10,
     companyName |-> <<>>, address |-> <<>>, invoiceNumber |-> <<>>,
     createdAt |-> 0]

\* the bodies submit is called with: BaseBody with one field replaced, and
\* bodies with two fields replaced (to tell which check answers first)
SubmitBodies ==
    {[BaseBody EXCEPT !.taxCode = t] : t \in TaxCodeInputs}
    \cup {[BaseBody EXCEPT !.email = e] : e \in EmailInputs}
    \cup {[BaseBody EXCEPT !.phone = p] : p \in PhoneInputs}
    \cup {[BaseBody EXCEPT !.companyName = o.companyName,
                           !.address = o.address,
                           !.invoiceNumber = o.invoiceNumber,
                           !.createdAt = o.createdAt] : o \in OptionalInputs}
    \cup {[BaseBody EXCEPT !.taxCode = TaxCode9, !.email = EmailNoDot],
          [BaseBody EXCEPT !.taxCode = TaxCodeAlpha, !.phone = Phone9],
          [BaseBody EXCEPT !.email = EmailShortTld, !.phone = PhoneAlpha]}

\* response.status of the webhook
Statuses == {200, 400, 401, 403, 404, 500, 503}

\* response.text() of the webhook: JSON with a success flag and a message,
\* or text that JSON.parse rejects
ResponseBodies ==
    {[json |-> TRUE, success |-> TRUE, message |-> <<"Da", "ghi">>],
     [json |-> TRUE, success |-> FALSE, message |-> <<"Loi:", "Error">>],
     [json |-> TRUE, success |-> FALSE, message |-> <<>>],
     [json |-> FALSE, success |-> FALSE, message |-> <<>>]}

AbortError == [name |-> "AbortError",
               message |-> <<"This", "operation", "was", "aborted">>]
FetchFailed == [name |-> "TypeError", message |-> <<"fetch", "failed">>]
ConnRefused == [name |-> "Error", message |-> <<"connect", "ECONNREFUSED">>]
BadUrl == [name |-> "TypeError", message |-> <<"Failed", "to", "parse", "URL">>]
Terminated == [name |-> "TypeError", message |-> <<"terminated">>]

\* what `await fetch(...)` can reject with: the 30 s abort, a network
\* failure, or an error raised before anything is sent
FetchRejections == {AbortError, FetchFailed, ConnRefused, BadUrl}

\* what `await response.text()` can reject with (the abort timer is
\* cleared by then): the body stream breaking off
BodyRejections == {Terminated}

\* the :taxCode parameter of lookup requests
LookupTaxCodes == (TaxCodeInputs \ {<<>>}) \cup {MockTaxCode}

\* TAX_LOOKUP_API_URL: not set, the placeholder of .env.example, a real one
CustomApiUrls ==
    {<<>>, <<"https://", "api.", "example.com", "/tax">>,
     <<"https://", "api.thue.vn", "/tax">>}

\* response.status of the lookup APIs
LookupStatuses == {200, 404, 429, 500}

\* response.json() of the custom API (json FALSE: the body does not parse)
CustomBodies ==
    {[json |-> TRUE, MaSoThue |-> TaxCode10, Title |-> <<"Cong Ty A">>,
      TitleEn |-> <<"A Co">>, TitleEnAscii |-> <<>>,
      DiaChiCongTy |-> <<"H", "N">>],
     [json |-> TRUE, MaSoThue |-> TaxCode10, Title |-> <<>>,
      TitleEn |-> <<>>, TitleEnAscii |-> <<>>, DiaChiCongTy |-> <<>>],
     [json |-> FALSE, MaSoThue |-> <<>>, Title |-> <<>>,
      TitleEn |-> <<>>, TitleEnAscii |-> <<>>, DiaChiCongTy |-> <<>>]}

VietQRCompany ==
    [id |-> <<>>, name |-> <<"Cong Ty B">>, internationalName |-> <<"B Co">>,
     shortName |-> <<"B">>,
     address |-> <<"H", "C", "M", ",", " ", "V", "i", "e", "t", "n", "a", "m">>]

\* response.json() of the public API
VietQRBodies ==
    {[json |-> TRUE, code |-> "00", desc |-> <<"Success">>, data |-> VietQRCompany],
     [json |-> TRUE, code |-> "00", desc |-> <<"Success">>, data |-> Null],
     [json |-> TRUE, code |-> "51", desc |-> <<"Tax", "code", "not", "found">>,
      data |-> Null],
     [json |-> TRUE, code |-> "51", desc |-> <<>>, data |-> Null],
     [json |-> TRUE, code |-> "", desc |-> <<>>, data |-> Null],
     [json |-> FALSE, code |-> "", desc |-> <<>>, data |-> Null]}

\* req.body of POST /api/tax-lookup/parse: a JSON object
ParseBodies ==
    {[MaSoThue |-> TaxCode10, Title |-> <<"Cong Ty A">>, TitleEn |-> <<"A Co">>,
      TitleEnAscii |-> <<>>,
      DiaChiCongTy |-> <<"H", "N", ",", " ", "V", "i", "ệ", "t", " ", "N", "a", "m">>],
     [MaSoThue |-> <<>>, Title |-> <<"Cong Ty A">>, TitleEn |-> <<>>,
      TitleEnAscii |-> <<>>, DiaChiCongTy |-> <<>>],
     [MaSoThue |-> TaxCode9, Title |-> <<>>, TitleEn |-> <<>>,
      TitleEnAscii |-> <<>>, DiaChiCongTy |-> <<>>]}

\* what the fetch of a lookup API can reject with: its 10 s abort or a
\* network failure
LookupRejections == {AbortError, FetchFailed}

-----------------------------------------------------------------------------
(* Actions *)

\* no submit is being handled at once with another
NoHandlers == [h \in 1..MaxRequests |-> [pc |-> "idle"]]

\* doPost has not been called
NoDoPosts == [c \in 1..MaxCalls |-> [pc |-> "idle"]]

\* no function has been called on its own
NotCalled == [of |-> "none"]

Init ==
    /\ rawAddress = <<>>
    /\ rawPhone = <<>>
    /\ returned = NotCalled
    /\ VERCEL \in BOOLEAN
    /\ urlConfigured \in BOOLEAN
    /\ customApiUrl \in CustomApiUrls
    /\ file = NoFile
    /\ now = 1
    /\ pc = "idle"
    /\ request = NoRequest
    /\ taxInfo = Null
    /\ retryCount = 0
    /\ status = 0
    /\ webhookReq = NoPayload
    /\ attempts = <<>>
    /\ appended = 0
    /\ timerMs = 0
    /\ sent = 0
    /\ saved = FALSE
    /\ syncResult = NoSync
    /\ response = NoResponse
    /\ sends = 0
    /\ guardArmed = FALSE
    /\ lpc = "idle"
    /\ adapterCalls = <<>>
    /\ lookupResult = Null
    /\ vietQrResult = Null
    /\ adapterEnds = <<>>
    /\ lastAccepted = Null
    /\ lastWriteThrew = FALSE
    /\ sheet = <<>>
    /\ doPosts = NoDoPosts
    /\ handlers = NoHandlers

env == <<VERCEL, urlConfigured, customApiUrl>>
webhookVars == <<sheet, doPosts>>
callVars == <<rawAddress, rawPhone, returned>>
lookupVars == <<lpc, adapterCalls, lookupResult, vietQrResult, adapterEnds>>
history == <<lastAccepted, lastWriteThrew>>
syncVars == <<retryCount, status, webhookReq, attempts, appended, timerMs, sent,
              syncResult>>

\* the URL check left out
MutSyncCallNeverSkips == FALSE

\* appendTaxInfoToSheet(rec, rc) up to its first await: without a URL it
\* returns at once; otherwise the request is on its way
SyncCallReturnsAtOnce == ~urlConfigured

\* a submit whose body fails validation: 400, nothing else happens
SubmitRejected(body) ==
    /\ pc = "idle"
    /\ SubmitRejection(body) # <<>>
    /\ request' = [kind |-> "submit", taxCode |-> body.taxCode,
                       phone |-> body.phone]
    /\ sends' = sends + 1
    /\ response' = Resp(400, FALSE, SubmitRejection(body), Null, Null)
    /\ pc' = "responded"
    /\ UNCHANGED <<env, webhookVars, handlers, callVars, lookupVars, file, now, taxInfo, saved, syncVars, history, guardArmed>>

\* a submit whose body passes validation: the record is built and written,
\* then appendTaxInfoToSheet is called and awaited
SubmitAccepted(body, throws) ==
    /\ pc = "idle"
    /\ SubmitRejection(body) = <<>>
    /\ now <= MaxClock
    /\ VERCEL => ~throws
    /\ LET rec == BuildTaxInfo(body, now) IN
        /\ request' = [kind |-> "submit", taxCode |-> body.taxCode,
                       phone |-> body.phone]
        /\ taxInfo' = rec
        /\ now' = now + 1
        /\ file' \in FilesAfterWrite(rec, throws)
        /\ saved' = writeTaxInfoReturns(throws)
        /\ lastAccepted' = rec
        /\ lastWriteThrew' = throws
        /\ IF SyncCallReturnsAtOnce
              THEN /\ syncResult' = Returned(NotConfiguredOutcome)
                   /\ sends' = sends + 1
                   /\ response' = SubmitResponse(rec, saved', syncResult')
                   /\ pc' = "responded"
                   /\ UNCHANGED <<webhookReq, sent>>
              ELSE /\ webhookReq' = Payload(rec)
                   /\ sent' = sent + 1
                   /\ pc' = "fetching"
                   /\ UNCHANGED <<syncResult, response, sends>>
        /\ UNCHANGED <<env, webhookVars, handlers, callVars, lookupVars, retryCount, status, attempts, appended,
                       timerMs, guardArmed>>

\* a retry scheduled while its attempt is left running
MutAttemptEndsLeavesRequest(d, cls) ==
    /\ attempts' = (IF d.act = "retry" THEN attempts ELSE Append(attempts, cls))
    /\ appended' \in {appended + k : k \in RowsAppendedBy(cls)}
    /\ webhookReq' = NoPayload
    /\ status' = 0
    /\ IF d.act = "retry"
          THEN /\ pc' = "backoff"
               /\ timerMs' = d.delay
               /\ UNCHANGED <<syncResult, response, sends>>
          ELSE /\ syncResult' = (IF d.act = "throw" THEN Thrown
                                 ELSE Returned(d.result))
               /\ sends' = sends + 1
               /\ response' = SubmitResponse(taxInfo, saved, syncResult')
               /\ pc' = "responded"
               /\ UNCHANGED timerMs
    /\ UNCHANGED <<env, webhookVars, handlers, callVars, lookupVars, file, now, request, taxInfo, retryCount, sent, saved,
                   history, guardArmed>>

\* the end of one attempt: decision d, attempt recorded as class cls
AttemptEnds(d, cls) ==
    /\ attempts' = Append(attempts, cls)
    /\ appended' \in {appended + k : k \in RowsAppendedBy(cls)}
    /\ webhookReq' = NoPayload
    /\ status' = 0
    /\ IF d.act = "retry"
          THEN /\ pc' = "backoff"
               /\ timerMs' = d.delay
               /\ UNCHANGED <<syncResult, response, sends>>
          ELSE /\ syncResult' = (IF d.act = "throw" THEN Thrown
                                 ELSE Returned(d.result))
               /\ sends' = sends + 1
               /\ response' = SubmitResponse(taxInfo, saved, syncResult')
               /\ pc' = "responded"
               /\ UNCHANGED timerMs
    /\ UNCHANGED <<env, webhookVars, handlers, callVars, lookupVars, file, now, request, taxInfo, retryCount, sent, saved,
                   history, guardArmed>>

\* `await fetch(...)` resolves: the response headers have arrived
FetchResolves(st) ==
    /\ pc = "fetching"
    /\ status' = st
    /\ pc' = "reading"
    /\ UNCHANGED <<env, webhookVars, handlers, callVars, lookupVars, file, now, request, taxInfo, retryCount, webhookReq,
                   attempts, appended, timerMs, sent, saved, syncResult, response, sends, history, guardArmed>>

\* `await fetch(...)` rejects
FetchRejects(err) ==
    /\ pc = "fetching"
    /\ AttemptEnds(OnFetchError(err, retryCount), ClassOfError(err))

\* `await response.text()` resolves
BodyArrives(body) ==
    /\ pc = "reading"
    /\ AttemptEnds(OnResponse(status, body, retryCount),
                   ClassOfResponse(status, body))

\* `await response.text()` rejects
BodyRejects(err) ==
    /\ pc = "reading"
    /\ AttemptEnds(OnFetchError(err, retryCount), ClassOfError(err))

\* the backoff timer fires: return appendTaxInfoToSheet(taxInfo, retryCount + 1)
BackoffElapses ==
    /\ pc = "backoff"
    /\ retryCount' = retryCount + 1
    /\ timerMs' = 0
    /\ webhookReq' = Payload(taxInfo)
    /\ sent' = sent + 1
    /\ pc' = "fetching"
    /\ UNCHANGED <<env, webhookVars, handlers, callVars, lookupVars, file, now, request, taxInfo, status, attempts,
                   appended, saved, syncResult, response, sends, history, guardArmed>>

\* GET /api/tax-info
Fetch ==
    /\ pc = "idle"
    /\ request' = [kind |-> "fetch", taxCode |-> <<>>, phone |-> <<>>]
    /\ sends' = sends + 1
    /\ response' = FetchResponse
    /\ pc' = "responded"
    /\ UNCHANGED <<env, webhookVars, handlers, callVars, lookupVars, file, now, taxInfo, saved, syncVars, history, guardArmed>>

\* GET /api/health
Health ==
    /\ pc = "idle"
    /\ request' = [kind |-> "health", taxCode |-> <<>>, phone |-> <<>>]
    /\ sends' = sends + 1
    /\ response' = HealthResponse
    /\ pc' = "responded"
    /\ UNCHANGED <<env, webhookVars, handlers, callVars, lookupVars, file, now, taxInfo, saved, syncVars, history, guardArmed>>

\* POST /api/tax-lookup/parse
ParseEndpoint(body) ==
    /\ pc = "idle"
    /\ request' = [kind |-> "parse", taxCode |-> body.MaSoThue, phone |-> <<>>]
    /\ sends' = sends + 1
    /\ response' = ParseResponse(body)
    /\ pc' = "responded"
    /\ UNCHANGED <<env, webhookVars, handlers, callVars, lookupVars, file, now, taxInfo, saved, syncVars, history, guardArmed>>

\* GET /api/tax-lookup/:taxCode with a malformed code: answered at once
LookupRejected(taxCode) ==
    /\ pc = "idle"
    /\ ~LookupFormatOk(taxCode)
    /\ request' = [kind |-> "lookup", taxCode |-> taxCode, phone |-> <<>>]
    /\ sends' = sends + 1
    /\ response' = LookupFormatResponse
    /\ pc' = "responded"
    /\ UNCHANGED <<env, webhookVars, handlers, callVars, lookupVars, file, now, taxInfo, saved, syncVars, history, guardArmed>>

\* GET /api/tax-lookup/:taxCode with a well-formed code: the handler awaits
\* Promise.race of lookupCompanyByTaxCode and the 15 s guard; the
\* orchestrator runs up to the first await of its first source
LookupAccepted(taxCode) ==
    /\ pc = "idle"
    /\ LookupFormatOk(taxCode)
    /\ request' = [kind |-> "lookup", taxCode |-> taxCode, phone |-> <<>>]
    /\ pc' = "lookup"
    /\ IF CustomApiUsed
          THEN lpc' = "customFetch" /\ adapterCalls' = <<"custom">>
          ELSE lpc' = "vietqrFetch" /\ adapterCalls' = <<"vietqr">>
    /\ guardArmed' = TRUE
    /\ UNCHANGED <<env, webhookVars, handlers, callVars, lookupResult, vietQrResult, adapterEnds, file, now,
                   taxInfo, saved, syncVars, response, sends, history>>

\* the handler answering with every result of the orchestrator
MutOrchestratorReturnsAlwaysSends(result) ==
    /\ lookupResult' = result
    /\ lpc' = "done"
    /\ response' = LookupResponse(result) /\ pc' = "responded" /\ sends' = sends + 1

\* lookupCompanyByTaxCode returns result; the handler answers with it
\* unless the guard has answered already
OrchestratorReturns(result) ==
    /\ lookupResult' = result
    /\ lpc' = "done"
    /\ IF pc = "lookup"
          THEN response' = LookupResponse(result) /\ pc' = "responded" /\ sends' = sends + 1
          ELSE UNCHANGED <<response, sends, pc>>

\* the custom API is given up (it ended as `how`): the public API is
\* queried next
CustomFallsThrough(how) ==
    /\ lpc' = "vietqrFetch"
    /\ adapterCalls' = Append(adapterCalls, "vietqr")
    /\ adapterEnds' = Append(adapterEnds, how)
    /\ UNCHANGED <<lookupResult, vietQrResult, response, sends, pc>>

\* tryVietQRApi returned vq (it ended as `how`) and that did not end the
\* chain: static table, then "not found"
VietQRFallsThrough(vq, how) ==
    /\ vietQrResult' = vq
    /\ adapterCalls' = Append(adapterCalls, "mock")
    /\ adapterEnds' = adapterEnds \o
           <<how, IF MockResult(request.taxCode) # Null THEN "success" ELSE "miss">>
    /\ OrchestratorReturns(FallbackResult(request.taxCode))

\* custom API: `await fetch(apiUrl)` resolves
CustomFetchResolves(st) ==
    /\ lpc = "customFetch"
    /\ IF ResponseOk(st)
          THEN /\ lpc' = "customJson"
               /\ UNCHANGED <<adapterCalls, lookupResult, vietQrResult,
                              adapterEnds, response, sends, pc>>
          ELSE CustomFallsThrough("status")
    /\ UNCHANGED <<env, webhookVars, handlers, callVars, request, file, now, taxInfo, saved, syncVars, history, guardArmed>>

\* custom API: `await fetch(apiUrl)` rejects; the catch at line 466 swallows it
CustomFetchRejects(err) ==
    /\ lpc = "customFetch"
    /\ CustomFallsThrough(ClassOfError(err))
    /\ UNCHANGED <<env, webhookVars, handlers, callVars, request, file, now, taxInfo, saved, syncVars, history, guardArmed>>

\* custom API: `await response.json()` settles
CustomJsonArrives(body) ==
    /\ lpc = "customJson"
    /\ IF body.json /\ CustomResult(body, request.taxCode) # Null
          THEN /\ OrchestratorReturns(CustomResult(body, request.taxCode))
               /\ adapterEnds' = Append(adapterEnds, "success")
               /\ UNCHANGED <<adapterCalls, vietQrResult>>
          ELSE CustomFallsThrough(IF body.json THEN "nofields" ELSE "badjson")
    /\ UNCHANGED <<env, webhookVars, handlers, callVars, request, file, now, taxInfo, saved, syncVars, history, guardArmed>>

\* public API: `await fetch(apiUrl)` resolves
VietQRFetchResolves(st) ==
    /\ lpc = "vietqrFetch"
    /\ IF VietQRStatusGivesUp(st)
          THEN VietQRFallsThrough(Null, IF st = 429 THEN "ratelimit" ELSE "status")
          ELSE /\ lpc' = "vietqrJson"
               /\ UNCHANGED <<adapterCalls, lookupResult, vietQrResult,
                              adapterEnds, response, sends, pc>>
    /\ UNCHANGED <<env, webhookVars, handlers, callVars, request, file, now, taxInfo, saved, syncVars, history, guardArmed>>

\* public API: `await fetch(apiUrl)` rejects; tryVietQRApi returns null
VietQRFetchRejects(err) ==
    /\ lpc = "vietqrFetch"
    /\ VietQRFallsThrough(Null, ClassOfError(err))
    /\ UNCHANGED <<env, webhookVars, handlers, callVars, request, file, now, taxInfo, saved, syncVars, history, guardArmed>>

\* public API: `await response.json()` settles
VietQRJsonArrives(body) ==
    /\ lpc = "vietqrJson"
    /\ LET vq == IF body.json THEN VietQRResult(body, request.taxCode) ELSE Null IN
       IF VietQREndsChain(vq)
          THEN /\ OrchestratorReturns(vq)
               /\ vietQrResult' = vq
               /\ adapterEnds' = Append(adapterEnds, "success")
               /\ UNCHANGED adapterCalls
          ELSE VietQRFallsThrough(vq, IF ~body.json THEN "badjson"
                                      ELSE IF vq # Null THEN "errorpayload"
                                      ELSE "unexpected")
    /\ UNCHANGED <<env, webhookVars, handlers, callVars, request, file, now, taxInfo, saved, syncVars, history, guardArmed>>

\* The 15 s guard can win the race only once 15 s have passed: never while
\* the first source awaits its fetch (aborted after 10 s); in a second
\* fetch, or in a body read (which no timer bounds), it can.
GuardCanFire ==
    \/ lpc \in {"customJson", "vietqrJson"}
    \/ lpc = "vietqrFetch" /\ Len(adapterCalls) > 1

\* the guard's rejection reaches the handler first
LookupGuardFires ==
    /\ pc = "lookup"
    /\ guardArmed
    /\ GuardCanFire
    /\ sends' = sends + 1
    /\ response' = LookupGuardResponse
    /\ pc' = "responded"
    /\ guardArmed' = FALSE
    /\ UNCHANGED <<env, webhookVars, handlers, callVars, lookupVars, request, file, now, taxInfo, saved, syncVars,
                   history>>

\* the orchestrator settled the race first; the 15 s timer, which nothing
\* clears, fires later and rejects a promise whose race is already decided
GuardFiresLate ==
    /\ pc = "responded"
    /\ lpc = "done"
    /\ guardArmed
    /\ guardArmed' = FALSE
    /\ UNCHANGED <<env, webhookVars, handlers, callVars, lookupVars, request, file, now, taxInfo, saved, syncVars,
                   history, pc, response, sends>>

\* the client has its response; the next request starts from fresh locals
ClientReceives ==
    /\ pc = "responded"
    /\ pc' = "idle"
    /\ request' = NoRequest
    /\ taxInfo' = Null
    /\ retryCount' = 0
    /\ status' = 0
    /\ webhookReq' = NoPayload
    /\ attempts' = <<>>
    /\ appended' = 0
    /\ timerMs' = 0
    /\ sent' = 0
    /\ saved' = FALSE
    /\ syncResult' = NoSync
    /\ response' = NoResponse
    /\ sends' = 0
    /\ lpc \in {"idle", "done"}
    /\ lpc' = "idle"
    /\ adapterCalls' = <<>>
    /\ lookupResult' = Null
    /\ vietQrResult' = Null
    /\ adapterEnds' = <<>>
    /\ guardArmed' = FALSE
    /\ UNCHANGED <<env, webhookVars, handlers, callVars, file, now, history>>

Next ==
    \/ \E body \in SubmitBodies : SubmitRejected(body)
    \/ \E body \in SubmitBodies : \E throws \in BOOLEAN : SubmitAccepted(body, throws)
    \/ \E st \in Statuses : FetchResolves(st)
    \/ \E err \in FetchRejections : FetchRejects(err)
    \/ \E body \in ResponseBodies : BodyArrives(body)
    \/ \E err \in BodyRejections : BodyRejects(err)
    \/ BackoffElapses
    \/ Fetch
    \/ Health
    \/ \E body \in ParseBodies : ParseEndpoint(body)
    \/ \E taxCode \in LookupTaxCodes : LookupRejected(taxCode)
    \/ \E taxCode \in LookupTaxCodes : LookupAccepted(taxCode)
    \/ \E st \in LookupStatuses : CustomFetchResolves(st)
    \/ \E err \in LookupRejections : CustomFetchRejects(err)
    \/ \E body \in CustomBodies : CustomJsonArrives(body)
    \/ \E st \in LookupStatuses : VietQRFetchResolves(st)
    \/ \E err \in LookupRejections : VietQRFetchRejects(err)
    \/ \E body \in VietQRBodies : VietQRJsonArrives(body)
    \/ LookupGuardFires
    \/ GuardFiresLate
    \/ ClientReceives

Spec == Init /\ [][Next]_vars

-----------------------------------------------------------------------------
(* The address formatter and the phone normaliser called on their own *)

\* addresses: an optional street part, what stands before the country name,
\* the country name in its spellings and letter cases, and what follows it
AddressLeads == {<<>>, <<" ">>}
AddressStreets == {<<>>, <<"H", "N">>}
AddressSeparators == {<<>>, <<",">>, <<" ">>, <<",", " ">>}
CountryNames ==
    {<<"V", "i", "ệ", "t", " ", "N", "a", "m">>,
     <<"V", "I", "Ệ", "T", " ", "N", "A", "M">>,
     <<"v", "i", "ệ", "t", " ", "n", "a", "m">>,
     <<"V", "i", "ệ", "t", "N", "a", "m">>,
     <<"V", "i", "e", "t", "n", "a", "m">>,
     <<"V", "I", "E", "T", "N", "A", "M">>,
     <<"v", "i", "e", "t", "n", "a", "m">>,
     <<"v", "I", "e", "T", "n", "A", "m">>}
AddressTrails == {<<>>, <<" ">>, <<".">>, <<".", " ">>}

\* addresses without a country name at the end, blank ones among them
PlainAddresses ==
    {<<>>, <<" ">>, <<" ", " ">>, <<"H", "N">>, <<" ", "H", "N", " ">>,
     <<"H", "N", ".">>, <<"N", "a", "m">>, <<"V", "i", "ệ", "t">>,
     <<"V", "i", "e", "t", "n", "a", "m", ",", " ", "H", "N">>,
     <<"H", "N", ",", " ", "V", "i", "e", "t", "n", "a", "m", "e", "s", "e">>}

AddressInputs ==
    PlainAddresses \cup
    {l \o st \o sep \o c \o tr :
        l \in AddressLeads, st \in AddressStreets, sep \in AddressSeparators,
        c \in CountryNames, tr \in AddressTrails}

\* phone strings beyond those of the submit bodies
PhoneStrings ==
    PhoneInputs \cup
    {<<"8", "4", " ", "9", "1", "2", "3", "4", "5", "6", "7", "8">>,
     <<"+", "8", "4", "-", "9", "1", "2", " ", "3", "4", "5", " ", "6", "7", "8">>,
     <<"+", "8", "4", "8", "4", "1", "2", "3">>,
     <<"0", "9", "1", "2", "-", "3", "4", "5", "-", "6", "7", "8">>,
     <<"1", "2", " ", "3", "4", "5", "6", " ", "7", "8", "9", "0">>,
     <<"9", "1", "2", "-", "3", "4", "5">>,
     <<"a", "b", "c", " ", "d", "e", "f">>,
     <<"0", "9", "+", "8", "4", "1", "2">>,
     <<"+", "8", "4", " ", "(", "9", "1", ")", "2">>,
     <<" ", "-", " ">>}

\* the server is idle and untouched while the functions are called
\* no request is being handled by the sequential server
RequestIdle ==
    /\ pc = "idle"
    /\ request = NoRequest
    /\ taxInfo = Null
    /\ saved = FALSE
    /\ response = NoResponse
    /\ sends = 0
    /\ guardArmed = FALSE
    /\ retryCount = 0
    /\ status = 0
    /\ webhookReq = NoPayload
    /\ attempts = <<>>
    /\ appended = 0
    /\ timerMs = 0
    /\ sent = 0
    /\ syncResult = NoSync
    /\ lpc = "idle"
    /\ adapterCalls = <<>>
    /\ lookupResult = Null
    /\ vietQrResult = Null
    /\ adapterEnds = <<>>
    /\ lastAccepted = Null
    /\ lastWriteThrew = FALSE

ServerIdle ==
    /\ VERCEL = FALSE
    /\ urlConfigured = FALSE
    /\ customApiUrl = <<>>
    /\ file = NoFile
    /\ now = 1
    /\ RequestIdle

FunctionsInit ==
    /\ sheet = <<>>
    /\ doPosts = NoDoPosts
    /\ handlers = NoHandlers
    /\ ServerIdle
    /\ \/ rawAddress \in AddressInputs /\ rawPhone = <<>>
       \/ rawAddress = <<>> /\ rawPhone \in PhoneStrings
    /\ returned = NotCalled

\* formatAddress(rawAddress)
CallFormatAddress ==
    /\ returned = NotCalled
    /\ returned' = [of |-> "formatAddress", value |-> formatAddress(rawAddress)]
    /\ UNCHANGED <<env, webhookVars, handlers, rawAddress, rawPhone, lookupVars, file, now, pc, request,
                   taxInfo, saved, syncVars, response, sends, history, guardArmed>>

\* the four replace calls applied to rawPhone
CallNormalizePhone ==
    /\ returned = NotCalled
    /\ returned' = [of |-> "normalizePhone", value |-> NormalizePhone(rawPhone)]
    /\ UNCHANGED <<env, webhookVars, handlers, rawAddress, rawPhone, lookupVars, file, now, pc, request,
                   taxInfo, saved, syncVars, response, sends, history, guardArmed>>

FunctionsNext == CallFormatAddress \/ CallNormalizePhone

FunctionsSpec == FunctionsInit /\ [][FunctionsNext]_vars

-----------------------------------------------------------------------------
(* Properties of Spreadsheet Sync *)

\* the sync of the submit being handled has ended and the response is out
SyncDone == request.kind = "submit" /\ pc = "responded" /\ syncResult # NoSync

\* the sync ended by returning a failure outcome
SyncFailed ==
    /\ ~syncResult.threw
    /\ syncResult.result # Null
    /\ syncResult.result.success = FALSE

AllAttempts(cls) ==
    attempts # <<>> /\ \A i \in 1..Len(attempts) : attempts[i] = cls

LastAttempt == attempts[Len(attempts)]

\* C1: a sync whose every request was answered with a 5xx status ends after
\* exactly 3 requests with a failure outcome; a request answered with a 4xx
\* status is never followed by another one, and a sync whose first answer is
\* 4xx ends after exactly 1 request with a failure outcome.
C1_RetryOn5xxNotOn4xx ==
    /\ \A i \in 1..Len(attempts) : attempts[i] = "4xx" => i = Len(attempts)
    /\ SyncDone /\ AllAttempts("5xx") =>
          sent = 3 /\ Len(attempts) = 3 /\ SyncFailed
    /\ SyncDone /\ attempts # <<>> /\ attempts[1] = "4xx" =>
          sent = 1 /\ Len(attempts) = 1 /\ SyncFailed

C1_Witness ==
    SyncDone /\ attempts = <<"5xx", "5xx", "5xx">> /\ sent = 3 /\ SyncFailed

\* C2 as stated: once the webhook has answered 2xx with well-formed JSON
\* whose success flag is false, the sync is over: one request, a final
\* failure outcome.
C2_AppFailureIsFinal ==
    attempts # <<>> /\ attempts[1] = "appfail" =>
        pc = "responded" /\ sent = 1 /\ SyncFailed

AppFailureMessages ==
    {b.message : b \in {x \in ResponseBodies : x.json /\ ~x.success /\ x.message # <<>>}}
    \cup {<<"Apps", "Script", "returned", "error">>}

\* C2 amended: an answer of 2xx with well-formed JSON whose success flag is
\* false is retried like a 5xx; it is final only as the answer to the third
\* request, and the failure outcome then carries the server-provided message
\* (or the default text when the server gave none).
C2_AppFailureRetried ==
    /\ \A i \in 1..Len(attempts) :
          attempts[i] = "appfail" /\ i <= MAX_RETRIES =>
              i < Len(attempts) \/ pc \in {"backoff", "fetching", "reading"}
    /\ SyncDone /\ attempts # <<>> /\ LastAttempt = "appfail" =>
          /\ sent = 3
          /\ Len(attempts) = 3
          /\ SyncFailed
          /\ syncResult.result.message \in AppFailureMessages

C2_Witness ==
    /\ SyncDone
    /\ attempts = <<"appfail", "appfail", "appfail">>
    /\ syncResult.result.message = <<"Loi:", "Error">>

RetriedFailures == {"badjson", "timeout", "netfail"}

C4_SyncNeverThrows ==
    SyncDone =>
        /\ ~syncResult.threw
        /\ DOMAIN syncResult.result = {"success", "message"}
        /\ syncResult.result.success \in BOOLEAN
        /\ syncResult.result.message # <<>>

C4_Witness ==
    SyncDone /\ attempts # <<>> /\ LastAttempt = "error" /\ ~syncResult.threw
        /\ syncResult.result.message = <<"terminated">>

\* C5: without a webhook URL a submit's sync issues no request, makes no
\* retry and returns the failure outcome 'Google Sheets not configured'.
C5_NotConfigured ==
    request.kind = "submit" /\ ~urlConfigured =>
        /\ sent = 0
        /\ attempts = <<>>
        /\ webhookReq = NoPayload
        /\ pc = "responded"
        /\ taxInfo # Null =>
              syncResult = [threw |-> FALSE,
                            result |-> [success |-> FALSE,
                                        message |-> <<"Google", "Sheets", "not",
                                                      "configured">>]]

C5_Witness ==
    /\ ~urlConfigured
    /\ request.kind = "submit"
    /\ taxInfo # Null
    /\ pc = "responded"
    /\ ~syncResult.result.success

-----------------------------------------------------------------------------
(* Properties of the request handlers *)

TenToThirteenDigits(s) ==
    Len(s) \in 10..13 /\ \A i \in 1..Len(s) : s[i] \in Digit

TenToElevenDigits(s) ==
    Len(s) \in 10..11 /\ \A i \in 1..Len(s) : s[i] \in Digit

\* the request being handled is a submit or a lookup with a malformed taxCode
MalformedRequest ==
    request.kind \in {"submit", "lookup"} /\ ~TenToThirteenDigits(request.taxCode)

\* C6: a step that takes a submit or a lookup whose taxCode is not 10 to 13
\* digits answers it at once with a failure, queries no lookup source,
\* issues no webhook request and leaves the persisted record as it was.
C6_MalformedTaxCodeRejected ==
    [][MalformedRequest' =>
          /\ pc' = "responded"
          /\ response'.success = FALSE
          /\ adapterCalls' = <<>>
          /\ lpc' = lpc
          /\ sent' = 0
          /\ webhookReq' = NoPayload
          /\ file' = file
          /\ taxInfo' = Null]_vars

C6_Witness ==
    /\ MalformedRequest
    /\ request.kind = "lookup"
    /\ request.taxCode = TaxCode14
    /\ file.state = "json"
    /\ pc = "responded"

\* C7: a submit that passed validation and the save answers 200 with
\* success true and its own record whatever the sync did, and the
\* googleSheetsSync field is the outcome the sync returned.
C7_SubmitSucceedsDespiteSync ==
    SyncDone =>
        /\ response.code = 200
        /\ response.success = TRUE
        /\ response.data = taxInfo
        /\ ~syncResult.threw => response.googleSheetsSync = syncResult.result

C7_Witness ==
    /\ SyncDone
    /\ Len(attempts) = 3
    /\ SyncFailed
    /\ response.success
    /\ response.googleSheetsSync.message = <<"Network", "error">>

\* C8: on a writable deployment (VERCEL not set, the write of the latest
\* validated submit did not fail) the slot holds exactly the record built
\* from the latest validated submit, and fetch answers with that record.
C8_SingleSlotLatestWins ==
    ~VERCEL /\ lastAccepted # Null /\ ~lastWriteThrew =>
        /\ file = [state |-> "json", data |-> lastAccepted]
        /\ request.kind = "fetch" =>
              /\ response.code = 200
              /\ response.success
              /\ response.data = lastAccepted

C8_Witness ==
    /\ ~VERCEL
    /\ request.kind = "fetch"
    /\ pc = "responded"
    /\ ~lastWriteThrew
    /\ lastAccepted # Null
    /\ lastAccepted.updatedAt = 2
    /\ lastAccepted.companyName = <<>>
    /\ response.data = lastAccepted

ValidRecord(rec) ==
    /\ TenToThirteenDigits(rec.taxCode)
    /\ TenToElevenDigits(rec.phone)
    /\ EmailRegex(rec.email)

\* C9: the record in the persisted slot, the record a submit holds and the
\* body of every webhook request have a taxCode of 10 to 13 digits, a phone
\* of 10 to 11 digits and an email that matches the email pattern.
C9_OnlyValidRecords ==
    /\ file.state = "json" => ValidRecord(file.data)
    /\ taxInfo # Null => ValidRecord(taxInfo)
    /\ webhookReq # NoPayload => ValidRecord(webhookReq)

C9_Witness ==
    /\ pc = "fetching"
    /\ file.state = "json"
    /\ webhookReq # NoPayload
    /\ webhookReq.taxCode = TaxCode13
    /\ file.data.phone = Phone10

\* the sync of the record has been called
SyncCalled == pc \in {"fetching", "reading", "backoff"} \/ syncResult # NoSync

\* C10: with VERCEL set nothing is ever written and fetch answers with data
\* null; a valid submit still has saved = true, answers success true with
\* its record, and hands the record to the sync.
C10_ReadOnlyDeployment ==
    VERCEL =>
        /\ file = [state |-> "absent"]
        /\ request.kind = "fetch" => response.success /\ response.data = Null
        /\ taxInfo # Null =>
              /\ saved
              /\ SyncCalled
              /\ urlConfigured => sent >= 1
              /\ webhookReq # NoPayload =>
                    webhookReq = [invoiceNumber |-> taxInfo.invoiceNumber,
                                  taxCode       |-> taxInfo.taxCode,
                                  companyName   |-> taxInfo.companyName,
                                  address       |-> taxInfo.address,
                                  email         |-> taxInfo.email,
                                  phone         |-> taxInfo.phone]
              /\ pc = "responded" =>
                    response.success /\ response.code = 200
                        /\ response.data = taxInfo

C10_Witness ==
    /\ VERCEL
    /\ request.kind = "fetch"
    /\ pc = "responded"
    /\ lastAccepted # Null
    /\ response.data = Null

-----------------------------------------------------------------------------
(* Properties of the lookup *)

\* the lookup orchestrator has been called for the request being handled
LookupCalled == request.kind = "lookup" /\ lpc # "idle"

\* the orders in which the sources can have been queried so far
SourceOrders ==
    {<<"custom">>, <<"custom", "vietqr">>, <<"custom", "vietqr", "mock">>,
     <<"vietqr">>, <<"vietqr", "mock">>}

\* an endpoint is configured and it is not the placeholder value
EndpointConfigured ==
    customApiUrl \notin {<<>>, <<"https://", "api.", "example.com", "/tax">>}

\* C11: the sources are queried in the order custom API, public API, static
\* table; the custom API is the first one exactly when an endpoint is
\* configured that is not the placeholder; a source that answered with a
\* success record is the last one queried and its record is what the lookup
\* returns; a custom API that did not succeed is followed by the public API.
C11_SourcesInOrder ==
    /\ adapterCalls = <<>> <=> ~LookupCalled
    /\ LookupCalled =>
          /\ adapterCalls \in SourceOrders
          /\ adapterCalls[1] = "custom" <=> EndpointConfigured
          /\ Len(adapterEnds) \in {Len(adapterCalls) - 1, Len(adapterCalls)}
          /\ \A i \in 1..Len(adapterEnds) :
                /\ adapterEnds[i] = "success" => i = Len(adapterCalls)
                /\ adapterEnds[i] # "success" /\ adapterCalls[i] # "mock" =>
                      Len(adapterCalls) > i
          /\ lpc = "done" =>
                /\ Len(adapterEnds) = Len(adapterCalls)
                /\ lookupResult.success <=> adapterEnds[Len(adapterEnds)] = "success"

C11_Witness ==
    /\ LookupCalled
    /\ lpc = "done"
    /\ adapterCalls = <<"custom", "vietqr">>
    /\ adapterEnds = <<"badjson", "success">>
    /\ pc = "responded"
    /\ response.success

\* the generic message of line 505
GenericNotFound == <<"Khong", "tim", "thay", "thong", "tin", "cong", "ty">>

\* tryVietQRApi returned the error description of a well-formed error payload
VietQRGaveError == vietQrResult # Null /\ ~vietQrResult.success

LookupTimedOut == <<"Yeu", "cau", "tra", "cuu", "qua", "thoi", "gian">>

\* the remote sources queried (the static table is a local lookup)
RemoteCalls == SelectSeq(adapterCalls, LAMBDA a : a # "mock")

\* C13 as stated: when the only remote source that was attempted timed out
\* (and the lookup failed), the caller gets the 'lookup timed out' message.
C13_LoneTimeoutSurfaced ==
    /\ LookupCalled
    /\ lpc = "done"
    /\ pc = "responded"
    /\ Len(RemoteCalls) = 1
    /\ adapterEnds[1] = "timeout"
    /\ ~lookupResult.success
    => /\ lookupResult.message = LookupTimedOut
       /\ response.message = LookupTimedOut

\* the message of lines 584-587
FormatError == <<"Ma", "so", "thue", "khong", "hop", "le.", "10-13">>

\* C14: every response of the lookup endpoint has status 200; a tax code of
\* the wrong format gets success false with the format-error message, and
\* whatever the sources did (not found, error payload, timeout, failed
\* fetch, unreadable body) a failure is success false with a message.
C14_LookupAlways200 ==
    request.kind = "lookup" /\ pc = "responded" =>
        /\ response.code = 200
        /\ ~TenToThirteenDigits(request.taxCode) =>
              /\ ~response.success
              /\ response.message = FormatError
              /\ ~LookupCalled
        /\ ~response.success => response.message # <<>> /\ response.data = Null
        /\ response.success => response.data # Null

C14_Witness ==
    /\ request.kind = "lookup"
    /\ pc = "responded"
    /\ adapterEnds = <<"timeout", "errorpayload", "miss">>
    /\ response.code = 200
    /\ ~response.success
    /\ response.message = GenericNotFound

\* s ends with ", Việt Nam"
EndsWithCountrySuffix(s) ==
    /\ Len(s) >= 10
    /\ SubSeq(s, Len(s) - 9, Len(s)) =
          <<",", " ", "V", "i", "ệ", "t", " ", "N", "a", "m">>

\* ways the public API can end that leave the 15 s guard no time to answer
\* first (no body is read)
FetchFailures == {"netfail", "timeout", "status", "ratelimit"}

\* C15: for the tax code of the static table, with no custom API in use and
\* a public API that did not give a success record, the lookup returns
\* success with the table's company name and the table's address followed
\* by the country suffix; the response carries that record (unless the body
\* of the public API came so late that the 15 s guard had answered).
C15_FallbackTableAnswers ==
    /\ LookupCalled
    /\ lpc = "done"
    /\ request.taxCode = <<"3", "9", "0", "1", "2", "1", "2", "6", "5", "4">>
    /\ ~EndpointConfigured
    /\ adapterEnds[1] # "success"
    => /\ adapterCalls = <<"vietqr", "mock">>
       /\ lookupResult.success
       /\ lookupResult.data.taxCode = request.taxCode
       /\ lookupResult.data.companyName = MOCK_TAX_DATA.Title
       /\ lookupResult.data.address = MOCK_TAX_DATA.DiaChiCongTy \o CountrySuffix
       /\ EndsWithCountrySuffix(lookupResult.data.address)
       /\ pc = "responded" =>
             \/ response.success /\ response.data = lookupResult.data
             \/ /\ adapterEnds[1] \notin FetchFailures
                /\ response.message = <<"Lookup", "timeout", "after", "15", "seconds">>

C15_Witness ==
    /\ LookupCalled
    /\ lpc = "done"
    /\ request.taxCode = MockTaxCode
    /\ adapterEnds = <<"ratelimit", "success">>
    /\ pc = "responded"
    /\ response.success
    /\ EndsWithCountrySuffix(response.data.address)

-----------------------------------------------------------------------------
(* Properties of the address formatter and the phone normaliser *)

Punctuation == {".", ",", ";", "!"}

\* s without the whitespace and punctuation at its end
RECURSIVE StripTrailing(_)
StripTrailing(s) ==
    IF s # <<>> /\ s[Len(s)] \in Whitespace \cup Punctuation
       THEN StripTrailing(SubSeq(s, 1, Len(s) - 1))
       ELSE s

\* s ends with the country name in one of its two spellings, in any letter
\* case, whatever stands before it, trailing punctuation and whitespace
\* allowed
EndsWithCountryName(s) ==
    LET a == StripTrailing(s) IN
    \/ EndsWithWord(a, <<"v", "i", "e", "t", "n", "a", "m">>)
    \/ /\ EndsWithWord(a, <<"n", "a", "m">>)
       /\ EndsWithWord(TrimRight(SubSeq(a, 1, Len(a) - 3)), <<"v", "i", "ệ", "t">>)

Blank(s) == \A i \in 1..Len(s) : s[i] \in Whitespace

\* C16 as stated: an address that ends with the country name (leading comma
\* or space optional, trailing punctuation or whitespace allowed) comes back
\* trimmed and otherwise unchanged.
C16_CountryNameKept ==
    returned.of = "formatAddress" /\ EndsWithCountryName(rawAddress) =>
        returned.value = Trim(rawAddress)

\* C17: a non-blank address that does not end with the country name comes
\* back trimmed with exactly one ", Việt Nam" added at its end; an empty,
\* blank or missing address comes back as the empty string.
C17_SuffixAppendedOnce ==
    returned.of = "formatAddress" =>
        /\ Blank(rawAddress) => returned.value = <<>>
        /\ ~Blank(rawAddress) /\ ~EndsWithCountryName(rawAddress) =>
              /\ returned.value =
                    Trim(rawAddress) \o <<",", " ", "V", "i", "ệ", "t", " ", "N", "a", "m">>
              /\ EndsWithCountrySuffix(returned.value)
              /\ ~EndsWithCountrySuffix(SubSeq(returned.value, 1,
                                               Len(returned.value) - 10))
              /\ returned.value[1] \notin Whitespace

C17_Witness ==
    /\ returned.of = "formatAddress"
    /\ rawAddress = <<" ", "H", "N", " ">>
    /\ returned.value = <<"H", "N", ",", " ", "V", "i", "ệ", "t", " ", "N", "a", "m">>

DialChars == Digit \cup Whitespace \cup {"-"}

StartsWith(s, p) == Len(s) >= Len(p) /\ SubSeq(s, 1, Len(p)) = p

\* the string has spaces or hyphens, or a "+84" or "84" prefix
NeedsNormalizing(s) ==
    \/ \E i \in 1..Len(s) : s[i] \in Whitespace \cup {"-"}
    \/ StartsWith(s, <<"+", "8", "4">>)
    \/ StartsWith(s, <<"8", "4">>)

\* "+84" or "84" followed by digits, spaces and hyphens only
PrefixedDialString(s) ==
    \/ StartsWith(s, <<"+", "8", "4">>) /\ \A i \in 4..Len(s) : s[i] \in DialChars
    \/ StartsWith(s, <<"8", "4">>) /\ \A i \in 3..Len(s) : s[i] \in DialChars

ZeroThenDigits(s) ==
    s # <<>> /\ s[1] = "0" /\ \A i \in 1..Len(s) : s[i] \in Digit

\* C18 as stated: every phone string with spaces, hyphens or a "+84"/"84"
\* prefix is normalised to a string of digits that starts with "0".
C18_AlwaysZeroThenDigits ==
    returned.of = "normalizePhone" /\ NeedsNormalizing(rawPhone) =>
        ZeroThenDigits(returned.value)

\* C18 as the code has it: the normaliser always returns a string, without
\* whitespace and hyphens, keeping every other character that is not part
\* of a rewritten prefix; the result is digits starting with "0" when the
\* input is "+84" or "84" followed by digits, spaces and hyphens only.
C18_PrefixedDialStringNormalized ==
    returned.of = "normalizePhone" =>
        /\ returned.value \in Seq({rawPhone[i] : i \in 1..Len(rawPhone)} \cup {"0"})
        /\ \A i \in 1..Len(returned.value) :
              returned.value[i] \notin Whitespace \cup {"-"}
        /\ Len(returned.value) <= Len(rawPhone)
        /\ PrefixedDialString(rawPhone) => ZeroThenDigits(returned.value)

C18_Witness ==
    /\ returned.of = "normalizePhone"
    /\ rawPhone = <<"+", "8", "4", "-", "9", "1", "2", " ", "3", "4", "5", " ",
                    "6", "7", "8">>
    /\ returned.value = <<"0", "9", "1", "2", "3", "4", "5", "6", "7", "8">>

-----------------------------------------------------------------------------
(* Properties of submit: phone and save *)

PhoneMessages ==
    {<<"So", "dien", "thoai", "la", "bat", "buoc">>,
     <<"So", "dien", "thoai", "phai", "co", "10-11", "chu", "so">>}

\* the submit being handled was answered 400 because of its phone
RejectedForPhone == response.code = 400 /\ response.message \in PhoneMessages

\* C19: a submit is turned down for its phone exactly when the normalised
\* phone is not 10 to 11 digits (a submit with such a phone is never
\* accepted); an accepted submit has the normalised phone, not the typed
\* one, in its record, in the file, in the webhook payload and in the
\* response: "+84 123-456-789" is kept as "0123456789".
C19_PhoneNormalizedOnAcceptance ==
    request.kind = "submit" =>
        LET n == NormalizePhone(request.phone) IN
        /\ RejectedForPhone => ~TenToElevenDigits(n)
        /\ ~TenToElevenDigits(n) =>
              pc = "responded" /\ response.code = 400 /\ taxInfo = Null
        /\ taxInfo # Null =>
              /\ TenToElevenDigits(n)
              /\ taxInfo.phone = n
              /\ ~VERCEL /\ ~lastWriteThrew => file.data.phone = n
              /\ webhookReq # NoPayload => webhookReq.phone = n
              /\ pc = "responded" => response.code = 200 /\ response.data.phone = n
              /\ request.phone = <<"+", "8", "4", " ", "1", "2", "3", "-", "4", "5",
                                   "6", "-", "7", "8", "9">> =>
                    taxInfo.phone = <<"0", "1", "2", "3", "4", "5", "6", "7", "8", "9">>

C19_Witness ==
    /\ request.kind = "submit"
    /\ request.phone = PhonePlus84
    /\ pc = "responded"
    /\ response.code = 200
    /\ response.data.phone = Phone10
    /\ file = JsonFile(taxInfo)
    /\ sent = 3

\* C20 as stated: a submit whose save met a filesystem error is answered
\* 500 with success false and a message, never with success.
C20_SaveFailureAnswers500 ==
    request.kind = "submit" /\ pc = "responded" /\ taxInfo # Null /\ lastWriteThrew =>
        /\ response.code = 500
        /\ ~response.success
        /\ response.message # <<>>

-----------------------------------------------------------------------------
(* Properties of timing, order and frame *)

\* C23: whenever the sync starts to wait before a retry, after its k-th
\* attempt (k = 1, 2), the timer is set to 1000 ms * k, whatever kind of
\* failure is retried; and a request after the first one is issued only by
\* that timer firing, with the delay 1000 ms * (requests issued so far).
C23_LinearBackoff ==
    [][/\ pc' = "backoff" /\ pc # "backoff" =>
             /\ Len(attempts') \in 1..2
             /\ timerMs' = 1000 * Len(attempts')
             /\ attempts'[Len(attempts')] \in RetriedFailures \cup {"5xx", "appfail"}
       /\ sent' = sent + 1 /\ sent >= 1 =>
             /\ pc = "backoff"
             /\ sent \in 1..2
             /\ timerMs = 1000 * sent
             /\ Len(attempts) = sent
       /\ pc = "backoff" => sent' \in {sent, sent + 1} /\ attempts' = attempts
      ]_vars

C23_Witness ==
    /\ pc = "backoff"
    /\ attempts = <<"timeout", "badjson">>
    /\ timerMs = 2000
    /\ sent = 2

\* the submit being handled passed validation
SubmitRunning == request.kind = "submit" /\ taxInfo # Null

\* C25: in a valid submit the record is in the slot (saved is true) from
\* the moment the first webhook request is out; no response exists while the
\* sync is still fetching, reading or waiting to retry; and once the
\* response exists the sync has returned, every request it issued has ended
\* and no retry is pending.
C25_SaveThenSyncThenResponse ==
    SubmitRunning =>
        /\ saved
        /\ sent >= 1 /\ ~VERCEL /\ ~lastWriteThrew =>
              file = [state |-> "json", data |-> taxInfo]
        /\ pc \in {"fetching", "reading", "backoff"} =>
              response = NoResponse /\ syncResult = NoSync
        /\ response # NoResponse =>
              /\ pc = "responded"
              /\ syncResult # NoSync
              /\ webhookReq = NoPayload
              /\ timerMs = 0
              /\ Len(attempts) = sent
              /\ sent >= 1 =>
                    \/ sent = 3
                    \/ attempts[sent] \in {"ok", "4xx", "error"}

C25_Witness ==
    /\ SubmitRunning
    /\ ~VERCEL
    /\ ~lastWriteThrew
    /\ pc = "responded"
    /\ attempts = <<"5xx", "timeout", "ok">>
    /\ file = JsonFile(taxInfo)
    /\ response.googleSheetsSync.success

\* C27: fetch answers success with the stored record or with null data when
\* there is none, and answers HTTP 500 with success false when the store
\* cannot be read (here: the file exists and is not parseable JSON).
C27_ReadErrorFailsFetch ==
    request.kind = "fetch" /\ pc = "responded" =>
        /\ ~VERCEL /\ file.state = "json" =>
              response.code = 200 /\ response.success /\ response.data = file.data
        /\ ~VERCEL /\ file = NoFile =>
              response.code = 200 /\ response.success /\ response.data = Null
        /\ ~VERCEL /\ file = Corrupt =>
              response.code = 500 /\ ~response.success

ReadOnlyKinds == {"lookup", "parse", "fetch", "health"}

\* what the orchestrator must return given the code looked up and the
\* sources' answers of this request
ExpectedLookupResults(taxCode, ends, vq) ==
    IF ends # <<>> /\ ends[1] = "success" /\ CustomApiUsed
       THEN {CustomResult(b, taxCode) : b \in {c \in CustomBodies : c.json}} \ {Null}
    ELSE IF vq # Null /\ vq.success
       THEN {vq}
    ELSE IF MockResult(taxCode) # Null
       THEN {MockResult(taxCode)}
    ELSE {NotFoundResult}

\* C30: the persisted record changes only in the step that accepts a submit;
\* no step of a lookup, parse, fetch or health request changes it; and the
\* result of a lookup is the one fixed by its taxCode, the configuration
\* and the sources' answers of that request, whatever was looked up or
\* submitted before, the response being that result or the guard's message.
C30_ReadOnlyAndStateless ==
    [][/\ file' # file =>
             pc = "idle" /\ request'.kind = "submit" /\ taxInfo' # Null
       /\ request.kind \in ReadOnlyKinds \/ request'.kind \in ReadOnlyKinds =>
             file' = file /\ lastAccepted' = lastAccepted
       /\ lpc' = "done" /\ lpc # "done" =>
             lookupResult' \in
                 ExpectedLookupResults(request.taxCode, adapterEnds', vietQrResult')
       /\ request.kind = "lookup" /\ pc = "lookup" /\ pc' = "responded" =>
             \/ response' = LookupGuardResponse /\ lpc' # "done"
             \/ lpc' = "done" /\ response' = LookupResponse(lookupResult')
      ]_vars

C30_Witness ==
    /\ request.kind = "lookup"
    /\ lpc = "done"
    /\ lastAccepted # Null
    /\ lastAccepted.taxCode = request.taxCode
    /\ file = JsonFile(lastAccepted)
    /\ lookupResult = NotFoundResult
    /\ response = LookupResponse(NotFoundResult)

\* webhook requests issued and not yet ended
InFlight == sent - Len(attempts)

\* C26: one submit never has more than one webhook request in flight: the
\* number of requests issued and not ended is 0 or 1, it is 1 exactly while
\* the handler awaits the fetch or the body, and a request is issued only
\* when every earlier one has ended (for a retry: out of the back-off wait
\* that followed the end of the previous attempt).
C26_SequentialAttempts ==
    [][/\ InFlight \in {0, 1}
       /\ InFlight = 1 <=> pc \in {"fetching", "reading"}
       /\ InFlight = 1 <=> webhookReq # NoPayload
       /\ sent' = sent + 1 =>
             /\ InFlight = 0
             /\ pc \in {"idle", "backoff"}
             /\ pc = "backoff" <=> sent >= 1
             /\ InFlight' = 1
       /\ Len(attempts') = Len(attempts) + 1 =>
             InFlight = 1 /\ InFlight' = 0 /\ sent' = sent
      ]_vars

C26_Witness ==
    /\ pc = "reading"
    /\ sent = 3
    /\ attempts = <<"timeout", "5xx">>
    /\ InFlight = 1

\* C28: one accepted submit adds at most one row to the spreadsheet,
\* whatever the outcomes of its webhook requests.
C28_AtMostOneRow ==
    SubmitRunning => appended <= 1

\* C29: a request never gets a second response: the number of res.json
\* calls made for it is 0 while it is being handled and 1 from the moment
\* it is answered; once answered, the response is not replaced, also when
\* the lookup orchestrator returns after the guard has answered or the
\* guard's timer fires after the orchestrator's result was sent; and the
\* client is handed a request only after exactly one send.
C29_ExactlyOneResponse ==
    [][/\ sends' \in {0, 1}
       /\ sends' = 1 <=> pc' = "responded"
       /\ sends' = 1 <=> response' # NoResponse
       /\ pc = "responded" /\ pc' = "responded" =>
             response' = response /\ sends' = sends
       /\ pc = "responded" /\ pc' = "idle" => sends = 1
       /\ sends' = sends + 1 => pc \in {"idle", "fetching", "reading", "lookup"}
      ]_vars

C29_Witness ==
    /\ request.kind = "lookup"
    /\ pc = "responded"
    /\ response = LookupGuardResponse
    /\ lpc = "done"
    /\ lookupResult # Null
    /\ lookupResult.success
    /\ sends = 1

\* the other order: the result was sent and the timer fired afterwards
GuardLostRace ==
    /\ request.kind = "lookup"
    /\ pc = "responded"
    /\ lpc = "done"
    /\ adapterEnds # <<>>
    /\ ~guardArmed
    /\ response = LookupResponse(lookupResult)
    /\ sends = 1

-----------------------------------------------------------------------------
(* Progress: what the timers of the code guarantee *)

\* `await fetch(...)` of the sync settles: the 30 s timer aborts it at the latest
SyncFetchSettles ==
    \/ \E st \in Statuses : FetchResolves(st)
    \/ \E err \in FetchRejections : FetchRejects(err)

\* `await fetch(...)` of a lookup source settles: the 10 s timer aborts it
LookupFetchSettles ==
    \/ \E st \in LookupStatuses : CustomFetchResolves(st)
    \/ \E err \in LookupRejections : CustomFetchRejects(err)
    \/ \E st \in LookupStatuses : VietQRFetchResolves(st)
    \/ \E err \in LookupRejections : VietQRFetchRejects(err)

\* Timers fire and the client reads its response. Each abort timer is
\* cleared once the headers are there (lines 173, 340, 437), so nothing makes
\* response.text() or response.json() settle: the body reads get no fairness.
Fairness ==
    /\ WF_vars(SyncFetchSettles)
    /\ WF_vars(BackoffElapses)
    /\ WF_vars(LookupFetchSettles)
    /\ WF_vars(LookupGuardFires)
    /\ WF_vars(ClientReceives)

LiveSpec == Spec /\ Fairness

\* C21: every accepted submit and every accepted lookup is eventually
\* answered, whatever the external services do.
C21_EveryRequestAnswered ==
    pc \in {"fetching", "reading", "backoff", "lookup"} ~> pc = "responded"

\* the part that the 15 s guard does secure: an accepted lookup is answered
LookupAnswered == pc = "lookup" ~> pc = "responded"

\* a submit is answered unless a body read is left pending
SubmitAnsweredUnlessReading ==
    pc \in {"fetching", "backoff"} ~> pc \in {"responded", "reading"}

-----------------------------------------------------------------------------
(* The spreadsheet webhook: doPost of google-apps-script.js *)

\* the seven header cells written at lines 69-77 (the first as in the
\* source, the others without their diacritics)
HeaderRow ==
    <<"Thời gian", "So hoa don", "Ma so thue", "Ten cong ty", "Dia chi",
      "Email", "So dien thoai">>

\* a row without content
BlankRow == <<>>

\* rows that were in the sheet before the webhook was installed
ExistingRowA == <<"2024-01-01", "INV-0", "0316794479">>
ExistingRowB == <<"", "INV-9", "0100109106", "Cong Ty C", "HN", "c@d.vn", "0987654321", "note">>

\* the sheet when the first call arrives: empty, or data without a header
\* (also with a first row that is blank or has an empty first cell)
InitialSheets ==
    {<<>>, <<ExistingRowA>>, <<ExistingRowA, ExistingRowB>>,
     <<ExistingRowB, ExistingRowA>>, <<BlankRow, ExistingRowA>>}

\* e.postData.contents: the JSON of a record (absent fields are ""), or
\* text that JSON.parse rejects
PostContents ==
    {[json |-> TRUE, invoiceNumber |-> "INV-1", taxCode |-> "0316794479",
      companyName |-> "Cong Ty A", address |-> "HN", email |-> "a@b.co",
      phone |-> "0123456789"],
     [json |-> TRUE, invoiceNumber |-> "", taxCode |-> "0316794479",
      companyName |-> "", address |-> "", email |-> "a@b.co",
      phone |-> "0123456789"],
     [json |-> FALSE, invoiceNumber |-> "", taxCode |-> "", companyName |-> "",
      address |-> "", email |-> "", phone |-> ""]}

\* new Date().toISOString() in execution c
Stamps == <<"t1", "t2", "t3", "t4">>

\* lines 86-94
RowData(c, data) ==
    <<Stamps[c], data.invoiceNumber, data.taxCode, data.companyName,
      data.address, data.email, data.phone>>

\* sheet.getLastRow(): the position of the last row with content
getLastRow(rows) == Len(rows)

\* sheet.getRange(1, 1).getValue()
FirstCell(rows) ==
    IF rows = <<>> \/ rows[1] = <<>> THEN "" ELSE rows[1][1]

\* line 62
HeaderMissing(lastRow, hasHeader) == lastRow = 0 \/ ~hasHeader

\* the header written over row 1 whatever it holds
MutNeedsInsertNever(lastRow, hasHeader) == FALSE

\* line 64
NeedsInsert(lastRow, hasHeader) == lastRow > 0 /\ ~hasHeader

\* sheet.insertRowBefore(1)
insertRowBefore1(rows) == <<BlankRow>> \o rows

\* sheet.getRange(1, 1, 1, 7).setValues([[...]]): cells 1 to 7 of row 1
SetHeader(rows) ==
    IF rows = <<>> THEN <<HeaderRow>>
    ELSE [rows EXCEPT ![1] = HeaderRow \o SubSeq(@, 8, Len(@))]

\* sheet.appendRow(rowData)
appendRow(rows, row) == Append(rows, row)

serverVars ==
    <<env, callVars, lookupVars, history, syncVars, file, now, pc, request, taxInfo,
      saved, response, sends, guardArmed, handlers>>

\* doPost is entered: JSON.parse(e.postData.contents); a parse error goes
\* to the catch block. Executions of a web app may overlap; `alone` records
\* that every earlier execution had ended when this one began.
DoPostStarts(c, contents) ==
    /\ doPosts[c].pc = "idle"
    /\ \A b \in 1..(c - 1) : doPosts[b].pc # "idle"
    /\ doPosts' = [doPosts EXCEPT ![c] =
           IF contents.json
              THEN [pc |-> "getLastRow", data |-> contents,
                    alone |-> \A b \in 1..(c - 1) : doPosts[b].pc = "done"]
              ELSE [pc |-> "done", success |-> FALSE,
                    alone |-> \A b \in 1..(c - 1) : doPosts[b].pc = "done"]]
    /\ UNCHANGED <<sheet, serverVars>>

\* line 57
DoPostGetLastRow(c) ==
    /\ doPosts[c].pc = "getLastRow"
    /\ doPosts' = [doPosts EXCEPT ![c] =
           [pc |-> "getValue", data |-> doPosts[c].data, alone |-> doPosts[c].alone,
            lastRow |-> getLastRow(sheet)]]
    /\ UNCHANGED <<sheet, serverVars>>

\* lines 58-64: the first cell is read and the branch is chosen
DoPostGetValue(c) ==
    /\ doPosts[c].pc = "getValue"
    /\ LET hasHeader == FirstCell(sheet) = "Thời gian"
           lastRow == doPosts[c].lastRow IN
       doPosts' = [doPosts EXCEPT ![c] =
           [pc |-> IF ~HeaderMissing(lastRow, hasHeader) THEN "appendRow"
                   ELSE IF NeedsInsert(lastRow, hasHeader) THEN "insertRowBefore"
                   ELSE "setValues",
            data |-> doPosts[c].data, alone |-> doPosts[c].alone]]
    /\ UNCHANGED <<sheet, serverVars>>

\* line 65
DoPostInsertRowBefore(c) ==
    /\ doPosts[c].pc = "insertRowBefore"
    /\ sheet' = insertRowBefore1(sheet)
    /\ doPosts' = [doPosts EXCEPT ![c] =
           [pc |-> "setValues", data |-> doPosts[c].data, alone |-> doPosts[c].alone]]
    /\ UNCHANGED serverVars

\* lines 68-82
DoPostSetValues(c) ==
    /\ doPosts[c].pc = "setValues"
    /\ sheet' = SetHeader(sheet)
    /\ doPosts' = [doPosts EXCEPT ![c] =
           [pc |-> "appendRow", data |-> doPosts[c].data, alone |-> doPosts[c].alone]]
    /\ UNCHANGED serverVars

\* lines 85-105
DoPostAppendRow(c) ==
    /\ doPosts[c].pc = "appendRow"
    /\ sheet' = appendRow(sheet, RowData(c, doPosts[c].data))
    /\ doPosts' = [doPosts EXCEPT ![c] =
           [pc |-> "done", success |-> TRUE, row |-> RowData(c, doPosts[c].data),
            alone |-> doPosts[c].alone]]
    /\ UNCHANGED serverVars

\* a call of the spreadsheet service throws: the catch block answers
\* success false
DoPostThrows(c) ==
    /\ doPosts[c].pc \in {"getLastRow", "getValue", "insertRowBefore", "setValues",
                          "appendRow"}
    /\ doPosts' = [doPosts EXCEPT ![c] =
           [pc |-> "done", success |-> FALSE, alone |-> doPosts[c].alone]]
    /\ UNCHANGED <<sheet, serverVars>>

SheetInit ==
    /\ ServerIdle
    /\ rawAddress = <<>>
    /\ rawPhone = <<>>
    /\ returned = NotCalled
    /\ sheet \in InitialSheets
    /\ doPosts = NoDoPosts
    /\ handlers = NoHandlers

SheetNext ==
    \/ \E c \in 1..MaxCalls : \E contents \in PostContents : DoPostStarts(c, contents)
    \/ \E c \in 1..MaxCalls : DoPostGetLastRow(c)
    \/ \E c \in 1..MaxCalls : DoPostGetValue(c)
    \/ \E c \in 1..MaxCalls : DoPostInsertRowBefore(c)
    \/ \E c \in 1..MaxCalls : DoPostSetValues(c)
    \/ \E c \in 1..MaxCalls : DoPostAppendRow(c)
    \/ \E c \in 1..MaxCalls : DoPostThrows(c)

SheetSpec == SheetInit /\ [][SheetNext]_vars

\* the rows of the sheet that hold data
Content(rows) == SelectSeq(rows, LAMBDA r : r # BlankRow /\ r # HeaderRow)

IsPrefix(p, q) == Len(p) <= Len(q) /\ SubSeq(q, 1, Len(p)) = p

\* executions that have answered success
Succeeded(d) == {c \in 1..MaxCalls : d[c].pc = "done" /\ d[c].success}

\* no execution is between its first and its last step
Quiescent(d) == \A c \in 1..MaxCalls : d[c].pc \in {"idle", "done"}

\* the calls so far came one after the other
InSequence(d) == \A c \in 1..MaxCalls : d[c].pc # "idle" => d[c].alone

\* C24: on a sheet that starts empty or with data and no header, every step
\* of doPost keeps the data rows there are, in their order; the execution
\* that answers success has added its one row of seven cells after all
\* rows, and no other step adds a data row (all this also for executions
\* that overlap); and after calls made one after the other, of which one
\* has succeeded, row 1 is the header row and no other row is.
C24_HeaderAndAppendOnly ==
    [][/\ IsPrefix(Content(sheet), Content(sheet'))
       /\ Len(Content(sheet')) =
             Len(Content(sheet))
                + Cardinality(Succeeded(doPosts')) - Cardinality(Succeeded(doPosts))
       /\ \A c \in Succeeded(doPosts') \ Succeeded(doPosts) :
             /\ sheet' = Append(sheet, doPosts'[c].row)
             /\ Len(doPosts'[c].row) = 7
             /\ doPosts'[c].row = RowData(c, doPosts[c].data)
       /\ InSequence(doPosts') /\ Quiescent(doPosts') /\ Succeeded(doPosts') # {} =>
             /\ sheet'[1] = HeaderRow
             /\ \A i \in 2..Len(sheet') : sheet'[i] # HeaderRow
      ]_vars

C24_Witness ==
    /\ InSequence(doPosts)
    /\ Succeeded(doPosts) = 1..MaxCalls
    /\ Len(sheet) = 3 + MaxCalls
    /\ sheet[1] = HeaderRow
    /\ sheet[2] = ExistingRowB
    /\ sheet[3] = ExistingRowA

-----------------------------------------------------------------------------
(* Submit requests handled at once *)

\* bodies of the concurrent submits: two that pass validation and differ,
\* one that fails it
ConcurrentBodies ==
    {BaseBody,
     [BaseBody EXCEPT !.taxCode = TaxCode13, !.companyName = <<"Cong Ty A">>],
     [BaseBody EXCEPT !.taxCode = TaxCode9]}

\* what `await appendTaxInfoToSheet(taxInfo)` can give the handler when the
\* webhook is configured: a success, a failure, an exception
AwaitedSyncs ==
    {Returned(Outcome(TRUE, <<"Data", "saved", "to", "Google", "Sheets">>)),
     Returned(Outcome(FALSE, HttpErrorMessage(404))),
     Thrown}

concFrame ==
    <<env, webhookVars, callVars, lookupVars, history, syncVars, pc, request, taxInfo,
      saved, response, sends, guardArmed>>

\* handler h receives a body that fails validation
HandlerRejects(h, body) ==
    /\ handlers[h].pc = "idle"
    /\ \A g \in 1..(h - 1) : handlers[g].pc # "idle"
    /\ SubmitRejection(body) # <<>>
    /\ handlers' = [handlers EXCEPT ![h] =
           [pc |-> "responded", body |-> body, taxInfo |-> Null, at |-> 0,
            threw |-> FALSE, saved |-> FALSE,
            response |-> Resp(400, FALSE, SubmitRejection(body), Null, Null)]]
    /\ UNCHANGED <<file, now, concFrame>>

\* handler h runs from validation to its await in one turn of the event
\* loop (lines 671-749): the record is built and written; without a webhook
\* the sync returns at once and the handler answers in the same turn
HandlerSaves(h, body, throws) ==
    /\ handlers[h].pc = "idle"
    /\ \A g \in 1..(h - 1) : handlers[g].pc # "idle"
    /\ SubmitRejection(body) = <<>>
    /\ VERCEL => ~throws
    /\ LET rec == BuildTaxInfo(body, now)
           wasSaved == writeTaxInfoReturns(throws) IN
        /\ file' \in FilesAfterWrite(rec, throws)
        /\ now' = now + 1
        /\ handlers' = [handlers EXCEPT ![h] =
               [pc |-> IF SyncCallReturnsAtOnce THEN "responded" ELSE "awaiting",
                body |-> body, taxInfo |-> rec, at |-> now, threw |-> throws,
                saved |-> wasSaved,
                response |-> IF SyncCallReturnsAtOnce
                                THEN SubmitResponse(rec, wasSaved,
                                                    Returned(NotConfiguredOutcome))
                                ELSE NoResponse]]
    /\ UNCHANGED concFrame

\* the await of handler h settles and the handler answers (lines 749-773)
HandlerResumes(h, sync) ==
    /\ handlers[h].pc = "awaiting"
    /\ handlers' = [handlers EXCEPT ![h] =
           [@ EXCEPT !.pc = "responded",
                     !.response = SubmitResponse(handlers[h].taxInfo,
                                                 handlers[h].saved, sync)]]
    /\ UNCHANGED <<file, now, concFrame>>

ConcurrentInit ==
    /\ VERCEL \in BOOLEAN
    /\ urlConfigured \in BOOLEAN
    /\ customApiUrl = <<>>
    /\ file = NoFile
    /\ now = 1
    /\ RequestIdle
    /\ rawAddress = <<>>
    /\ rawPhone = <<>>
    /\ returned = NotCalled
    /\ sheet = <<>>
    /\ doPosts = NoDoPosts
    /\ handlers = NoHandlers

ConcurrentNext ==
    \/ \E h \in 1..MaxRequests : \E body \in ConcurrentBodies : HandlerRejects(h, body)
    \/ \E h \in 1..MaxRequests : \E body \in ConcurrentBodies :
          \E throws \in BOOLEAN : HandlerSaves(h, body, throws)
    \/ \E h \in 1..MaxRequests : \E sync \in AwaitedSyncs : HandlerResumes(h, sync)

ConcurrentSpec == ConcurrentInit /\ [][ConcurrentNext]_vars

\* handlers whose save has run
Savers == {h \in 1..MaxRequests : handlers[h].pc # "idle" /\ handlers[h].taxInfo # Null}

\* the handler whose save ran most recently
LastSaver == CHOOSE h \in Savers : \A g \in Savers : handlers[g].at <= handlers[h].at

\* C22: with several submits suspended at once, the slot holds the whole
\* record of the submit that saved last (where a write is performed and did
\* not throw), never a blend and never an older one; and each submit's
\* response carries the record built from its own body.
C22_LastWriteWins ==
    /\ Savers # {} /\ ~VERCEL /\ ~handlers[LastSaver].threw =>
          file = JsonFile(handlers[LastSaver].taxInfo)
    /\ file \in {NoFile, Corrupt} \cup {JsonFile(handlers[h].taxInfo) : h \in Savers}
    /\ \A h \in Savers :
          /\ handlers[h].taxInfo = BuildTaxInfo(handlers[h].body, handlers[h].at)
          /\ handlers[h].pc = "awaiting" => handlers[h].response = NoResponse
          /\ handlers[h].pc = "responded" =>
                /\ handlers[h].response.code = 200
                /\ handlers[h].response.data = handlers[h].taxInfo

C22_Witness ==
    /\ ~VERCEL
    /\ handlers[1].pc = "responded"
    /\ handlers[2].pc = "awaiting"
    /\ handlers[1].taxInfo # Null
    /\ handlers[1].at < handlers[2].at
    /\ handlers[1].taxInfo.taxCode # handlers[2].taxInfo.taxCode
    /\ file = JsonFile(handlers[2].taxInfo)
    /\ handlers[1].response.data = handlers[1].taxInfo

====
